---- MODULE Spec2Model ----
(***************************************************************************)
(* A model of the clusters manager of weave-gitops                         *)
(* (core/clustersmngr/factory.go): the Cluster Registry, the Namespace     *)
(* Cache, the User Namespace Cache, the User Client Cache, the per-cluster *)
(* fan-out of GetImpersonatedClient / GetServerClient, the namespace       *)
(* refresh (UpdateNamespaces, syncCaches) and the watcher hub (Subscribe,  *)
(* RemoveWatcher, Unsubscribe, Notify, UpdateClusters).                    *)
(*                                                                         *)
(* Every method that touches shared state is cut into steps at the points  *)
(* where it reads or writes that state, so that TLC interleaves the        *)
(* goroutines the way the Go scheduler may.                                *)
(***************************************************************************)
EXTENDS Naturals, Sequences, FiniteSets, TLC

VARIABLES
    clusters,            \* cf.clusters: the Cluster Registry (a list of Cluster)
    clustersHash,        \* cf.clustersHash
    clustersNamespaces,  \* cf.clustersNamespaces: cluster name -> namespaces
    usersNamespaces,     \* cf.usersNamespaces: (user id, cluster name) -> namespaces
    usersClients,        \* cf.usersClients: (user id, cluster name) -> client
    call,                \* the in-flight manager calls, one per calling goroutine
    watchers,            \* cf.watchers
    chans,               \* each ClustersWatcher's Updates channel
    upd,                 \* the in-flight UpdateClusters calls
    sub,                 \* the subscribers (owners of the watchers)
    hist,                \* observations kept for the properties
    loop                 \* the two goroutines of Start and their channel

vars == <<clusters, clustersHash, clustersNamespaces, usersNamespaces,
          usersClients, call, watchers, chans, upd, sub, hist, loop>>

---------------------------------------------------------------------------
(* Values *)

\* Cluster names; "ab" is both an extension of "a" and the concatenation
\* of "a" and "b".
Names == {"a", "ab", "b"}

\* The lexicographic order of the names.
NameRank(n) == CASE n = "a" -> 1 [] n = "ab" -> 2 [] n = "b" -> 3

\* A Cluster value: its name and its connection parameters.
Cl(n, k) == [name |-> n, conn |-> k]

\* What the discovery collaborator (ClusterFetcher.Fetch) returns in the
\* runs of the client calls.
ClientsDiscoveries ==
    { <<Cl("a", 1), Cl("b", 1)>>,
      <<Cl("a", 1), Cl("ab", 1), Cl("b", 1)>> }

\* The sentinel identity getOrCreateClient uses for a nil user.
ServerId == "weave-gitops-server"
NoUser == "<nil>"
UserIds == {"u1", ServerId}
Principals == UserIds \cup {NoUser}

NsNames == {"n1", "n2"}
\* The namespaces the access checker lets a user read.
Accessible(u) == IF u = "u1" THEN {"n1"} ELSE NsNames

NoClient == [kind |-> "none"]
\* The mark of a key without an entry (never a namespace name).
NoEntry == {"<absent>"}
NoCluster == [name |-> "<nil>", conn |-> 0]

NamesOf(cs) == {cs[i].name : i \in DOMAIN cs}
Range(s) == {s[i] : i \in DOMAIN s}

---------------------------------------------------------------------------
(* The Cluster Registry: Clusters.Get / Set / Hash *)

RECURSIVE SortedNames(_)
SortedNames(S) ==
    IF S = {} THEN <<>>
    ELSE LET m == CHOOSE n \in S : \A o \in S : NameRank(n) <= NameRank(o)
         IN  <<m>> \o SortedNames(S \ {m})

\* The sorted names in one string, each name closed by a mark no name holds.
RECURSIVE JoinNames(_)
JoinNames(s) == IF s = <<>> THEN "" ELSE Head(s) \o "," \o JoinNames(Tail(s))

\* The names of a list, in the order of the list, in one string.
RECURSIVE JoinListed(_)
JoinListed(cs) ==
    IF cs = <<>> THEN "" ELSE Head(cs).name \o "," \o JoinListed(Tail(cs))

\* A digest of the names in the order the clusters were supplied.
RegistryHashUnsorted(cs) == JoinListed(cs)

\* A digest that keeps only the first of the sorted names.
RegistryHashFirstName(cs) ==
    IF cs = <<>> THEN "" ELSE Head(SortedNames(NamesOf(cs)))

\* Hash(): a digest of the sorted name list that differs whenever the name
\* sets differ.
RegistryHash(cs) == JoinNames(SortedNames(NamesOf(cs)))

\* The clusters of cs whose names are in S, in the order of their names.
RECURSIVE ByName(_, _)
ByName(cs, order) ==
    IF order = <<>> THEN <<>>
    ELSE SelectSeq(cs, LAMBDA c : c.name = Head(order)) \o ByName(cs, Tail(order))

\* A Set that reports every cluster of the new list as added.
SetAddedAll(old, new) == new

\* Set(new) on a registry holding old: the clusters added and removed, by name.
SetAdded(old, new) == ByName(new, SortedNames(NamesOf(new) \ NamesOf(old)))
SetRemoved(old, new) == ByName(old, SortedNames(NamesOf(old) \ NamesOf(new)))

---------------------------------------------------------------------------
(* The caches *)

ClientKeys == UserIds \X Names

\* UsersClients.Get(user, clusterName)
UsersClientsGet(cache, u, n) == cache[<<u, n>>]
\* UsersClients.Set(user, clusterName, client)
UsersClientsSet(cache, u, n, c) == [cache EXCEPT ![<<u, n>>] = c]

\* ClustersNamespaces.Clear / UsersNamespaces.Clear
EmptyNamespaces == [n \in Names |-> NoEntry]
EmptyUsersNamespaces == [k \in ClientKeys |-> NoEntry]
EmptyClients == [k \in ClientKeys |-> NoClient]

\* UsersNamespaces.GetAll(user, clusters): the entries of the user for the
\* clusters of the registry.
UsersNamespacesGetAll(cache, u, cs) ==
    [n \in {m \in NamesOf(cs) : cache[<<u, m>>] /= NoEntry} |-> cache[<<u, n>>]]

\* GetUserNamespaces(user)
GetUserNamespaces(u) == UsersNamespacesGetAll(usersNamespaces, u, clusters)

\* GetClustersNamespaces(): the entries of the Namespace Cache.
GetClustersNamespaces ==
    [n \in {m \in Names : clustersNamespaces[m] /= NoEntry} |-> clustersNamespaces[n]]

---------------------------------------------------------------------------
(* The calling goroutines and their per-cluster tasks *)

\* The goroutines that call the manager: a request handler and the
\* namespace refresh loop.
Slots == {"req", "ns"}

EmptyPool == [n \in {} |-> NoClient]

\* NewClustersClientsPool(), make(chan error, ...), sync.WaitGroup{}: the
\* locals of a call that has not started.
IdleCall ==
    [op |-> "none", pc |-> "idle", user |-> NoUser, arg |-> "",
     cap |-> 0, targets |-> <<>>, task |-> <<>>, got |-> <<>>,
     pool |-> EmptyPool, errs |-> <<>>, failed |-> {},
     nsTargets |-> <<>>, nsTask |-> <<>>, nsSeen |-> <<>>,
     changed |-> FALSE, lists |-> EmptyPool,
     client |-> "nil", ns |-> EmptyPool, nsLive |-> FALSE, err |-> <<>>,
     asked |-> EmptyPool]

\* ClientError{ClusterName, Err}
ClientError(n, msg) == [ClusterName |-> n, Err |-> msg]

\* The identity getOrCreateClient works with: the sentinel for a nil user.
EffectiveUser(u) == IF u = NoUser THEN ServerId ELSE u

\* errChan <- err: the send completes while the channel has room; a task
\* that finds it full stays blocked (nothing receives before wg.Wait returns).
SendErr(c, i, e) ==
    IF Len(c.errs) < c.cap
    THEN [c EXCEPT !.errs = Append(@, e), !.task[i] = "done"]
    ELSE [c EXCEPT !.task[i] = "blocked"]

\* ClientsPool.Add(client, cluster)
PoolHas(pool, n) == n \in DOMAIN pool
PoolAdd(pool, n, c) == [m \in DOMAIN pool \cup {n} |-> IF m = n THEN c ELSE pool[m]]

\* The first cf.clusters.Get() of the fan-out: the capacity of errChan.
FanOutStart(k, op, u) ==
    call' = [call EXCEPT ![k] =
               [IdleCall EXCEPT !.op = op, !.pc = "spawn", !.user = u,
                                !.cap = Len(clusters)]]

\* A GetImpersonatedClient without the nil check.
GetImpersonatedClientUnchecked(k, u) ==
    /\ call[k].pc = "idle"
    /\ FanOutStart(k, "GetImpersonatedClient", u)
    /\ UNCHANGED <<clusters, clustersHash, clustersNamespaces, usersNamespaces,
                   usersClients, watchers, chans, upd, sub, hist, loop>>

\* GetImpersonatedClient(ctx, user): the nil check, then make(chan error, n).
GetImpersonatedClient(k, u) ==
    /\ call[k].pc = "idle"
    /\ IF u = NoUser
       THEN call' = [call EXCEPT ![k] =
                       [IdleCall EXCEPT !.op = "GetImpersonatedClient",
                                        !.pc = "returned",
                                        !.err = <<"no user supplied">>]]
       ELSE FanOutStart(k, "GetImpersonatedClient", u)
    /\ UNCHANGED <<clusters, clustersHash, clustersNamespaces, usersNamespaces,
                   usersClients, watchers, chans, upd, sub, hist, loop>>

\* GetServerClient(ctx): make(chan error, n).
GetServerClient(k) ==
    /\ call[k].pc = "idle"
    /\ FanOutStart(k, "GetServerClient", NoUser)
    /\ UNCHANGED <<clusters, clustersHash, clustersNamespaces, usersNamespaces,
                   usersClients, watchers, chans, upd, sub, hist, loop>>

\* for _, cl := range cf.clusters.Get() { wg.Add(1); go func ... }: the
\* second Get() fixes the clusters the call targets, one task each.
FanOutSpawn(k) ==
    /\ call[k].pc = "spawn"
    /\ call' = [call EXCEPT ![k].pc = "wait",
                            ![k].targets = clusters,
                            ![k].task = [i \in DOMAIN clusters |-> "lookup"],
                            ![k].got = [i \in DOMAIN clusters |-> NoClient]]
    /\ UNCHANGED <<clusters, clustersHash, clustersNamespaces, usersNamespaces,
                   usersClients, watchers, chans, upd, sub, hist, loop>>

\* A getOrCreateClient that takes every lookup for a miss.
getOrCreateClientGetAlwaysMiss(k, i) ==
    /\ call[k].pc = "wait"
    /\ i \in DOMAIN call[k].task
    /\ call[k].task[i] = "lookup"
    /\ call' = [call EXCEPT ![k].task[i] = "create"]
    /\ UNCHANGED <<clusters, clustersHash, clustersNamespaces, usersNamespaces,
                   usersClients, watchers, chans, upd, sub, hist, loop>>

\* getOrCreateClient, first half: the lookup in the User Client Cache.
getOrCreateClientGet(k, i) ==
    /\ call[k].pc = "wait"
    /\ i \in DOMAIN call[k].task
    /\ call[k].task[i] = "lookup"
    /\ LET c == UsersClientsGet(usersClients, EffectiveUser(call[k].user),
                                call[k].targets[i].name)
       IN  call' = IF c /= NoClient
                   THEN [call EXCEPT ![k].got[i] = c, ![k].task[i] = "add"]
                   ELSE [call EXCEPT ![k].task[i] = "create"]
    /\ UNCHANGED <<clusters, clustersHash, clustersNamespaces, usersNamespaces,
                   usersClients, watchers, chans, upd, sub, hist, loop>>

\* A construction that uses the credentials of the identity in every case.
NewClientForUserOnly(isServer, u, cl, k) ==
    [kind |-> "user", user |-> u, cluster |-> cl, by |-> k]

\* The client cluster.GetServerClient() / cluster.GetUserClient(user) builds.
NewClientFor(isServer, u, cl, k) ==
    [kind |-> IF isServer THEN "server" ELSE "user", user |-> u,
     cluster |-> cl, by |-> k]

\* The error a failed getOrCreateClient makes its task report.
CreateErrText(c) ==
    IF c.op = "GetImpersonatedClient" THEN "failed creating user client to pool"
    ELSE IF c.op = "GetImpersonatedClientForCluster" THEN "failed creating cluster client"
    ELSE "failed creating server client to pool"

\* A task that drops the error of getOrCreateClient instead of reporting it.
OnCreateErrorDropped(c, i) ==
    [c EXCEPT !.failed = @ \cup {c.targets[i].name}, !.task[i] = "done"]

\* What a task does when getOrCreateClient returned an error.
OnCreateError(c, i) ==
    SendErr([c EXCEPT !.failed = @ \cup {c.targets[i].name}], i,
            ClientError(c.targets[i].name, CreateErrText(c)))

\* A getOrCreateClient that returns the client it built without storing it.
getOrCreateClientCreateUnstored(k, i, built) ==
    /\ call[k].pc = "wait"
    /\ i \in DOMAIN call[k].task
    /\ call[k].task[i] = "create"
    /\ call' = [call EXCEPT ![k] =
                 IF ~built THEN OnCreateError(call[k], i)
                 ELSE [call[k] EXCEPT
                         !.got[i] = NewClientFor(call[k].user = NoUser,
                                                 EffectiveUser(call[k].user),
                                                 call[k].targets[i], k),
                         !.task[i] = "add"]]
    /\ UNCHANGED <<clusters, clustersHash, clustersNamespaces, usersNamespaces,
                   usersClients, watchers, chans, upd, sub, hist, loop>>

\* A getOrCreateClient that stores a client also when the construction
\* failed and the error is reported.
getOrCreateClientCreateStoringFailure(k, i, built) ==
    /\ call[k].pc = "wait"
    /\ i \in DOMAIN call[k].task
    /\ call[k].task[i] = "create"
    /\ LET cl == call[k].targets[i]
           u == EffectiveUser(call[k].user)
           c == NewClientFor(call[k].user = NoUser, u, cl, k)
       IN  /\ call' = [call EXCEPT ![k] =
                        IF ~built THEN OnCreateError(call[k], i)
                        ELSE [call[k] EXCEPT !.got[i] = c, !.task[i] = "add"]]
           /\ usersClients' = UsersClientsSet(usersClients, u, cl.name, c)
    /\ UNCHANGED <<clusters, clustersHash, clustersNamespaces, usersNamespaces,
                   watchers, chans, upd, sub, hist, loop>>

\* getOrCreateClient, second half: after a miss, the client is constructed
\* with the server identity for a nil user and with the user's credentials
\* otherwise, and stored; a failed construction (built = FALSE) stores nothing.
getOrCreateClientCreate(k, i, built) ==
    /\ call[k].pc = "wait"
    /\ i \in DOMAIN call[k].task
    /\ call[k].task[i] = "create"
    /\ LET cl == call[k].targets[i]
           u == EffectiveUser(call[k].user)
           c == NewClientFor(call[k].user = NoUser, u, cl, k)
       IN  IF ~built
           THEN /\ call' = [call EXCEPT ![k] = OnCreateError(call[k], i)]
                /\ UNCHANGED usersClients
           ELSE /\ call' = [call EXCEPT ![k].got[i] = c, ![k].task[i] = "add"]
                /\ usersClients' = UsersClientsSet(usersClients, u, cl.name, c)
    /\ UNCHANGED <<clusters, clustersHash, clustersNamespaces, usersNamespaces,
                   watchers, chans, upd, sub, hist, loop>>

\* A task whose pool.Add puts its client over the one the pool holds.
OnClientOverwriting(c, i) ==
    [c EXCEPT !.pool = PoolAdd(@, c.targets[i].name, c.got[i]),
              !.task[i] = "done"]

\* What a task does with the client it holds: pool.Add, and the error of a
\* duplicate name reported like a failed construction.
OnClient(c, i) ==
    IF PoolHas(c.pool, c.targets[i].name)
    THEN SendErr(c, i, ClientError(c.targets[i].name,
                                   "failed adding cluster client to pool"))
    ELSE [c EXCEPT !.pool = PoolAdd(@, c.targets[i].name, c.got[i]),
                   !.task[i] = "done"]

\* pool.Add(client, cluster) and wg.Done().
TaskPoolAdd(k, i) ==
    /\ call[k].pc = "wait"
    /\ i \in DOMAIN call[k].task
    /\ call[k].task[i] = "add"
    /\ call' = [call EXCEPT ![k] = OnClient(call[k], i)]
    /\ UNCHANGED <<clusters, clustersHash, clustersNamespaces, usersNamespaces,
                   usersClients, watchers, chans, upd, sub, hist, loop>>

\* A join that does not wait for the tasks.
AllDoneNoWait(tasks) == TRUE

\* wg.Wait(): every task has called wg.Done().
AllDone(tasks) == \A i \in DOMAIN tasks : tasks[i] = "done"

\* NewClient(pool, namespaces), result.ErrorOrNil(): the call's results.
ReturnClient(c, ns, live) ==
    [c EXCEPT !.pc = "returned", !.client = "client", !.ns = ns,
              !.nsLive = live, !.err = c.errs]

\* userNsList, first half: GetUserNamespaces(user), returned when it holds
\* an entry for some cluster; otherwise UpdateUserNamespaces is to run.
userNsList(c) ==
    LET m == GetUserNamespaces(c.user)
    IN  IF DOMAIN m /= {} THEN ReturnClient(c, m, FALSE) ELSE [c EXCEPT !.pc = "nsspawn"]

\* wg.Wait(), close(errChan), the drain of errChan and what follows it in
\* GetImpersonatedClient, GetImpersonatedClientForCluster and GetServerClient.
\* The map GetServerClient hands to NewClient is cf.clustersNamespaces.namespaces
\* itself (nsLive), not a copy of it.
FanOutJoin(k) ==
    /\ call[k].pc = "wait"
    /\ AllDone(call[k].task)
    /\ call[k].op \in {"GetImpersonatedClient", "GetImpersonatedClientForCluster",
                       "GetServerClient"}
    /\ call' = [call EXCEPT ![k] =
                 IF call[k].op = "GetServerClient"
                 THEN ReturnClient(call[k], EmptyPool, TRUE)
                 ELSE IF call[k].op = "GetImpersonatedClientForCluster"
                         /\ call[k].errs /= <<>>
                 THEN [call[k] EXCEPT !.pc = "returned", !.err = call[k].errs]
                 ELSE userNsList(call[k])]
    /\ UNCHANGED <<clusters, clustersHash, clustersNamespaces, usersNamespaces,
                   usersClients, watchers, chans, upd, sub, hist, loop>>

\* UpdateUserNamespaces(ctx, user): one task per cluster of cf.clusters.Get().
UpdateUserNamespaces(k) ==
    /\ call[k].pc = "nsspawn"
    /\ call' = [call EXCEPT ![k].pc = "nswait",
                            ![k].nsTargets = clusters,
                            ![k].nsTask = [i \in DOMAIN clusters |-> "read"],
                            ![k].nsSeen = [i \in DOMAIN clusters |-> {}]]
    /\ UNCHANGED <<clusters, clustersHash, clustersNamespaces, usersNamespaces,
                   usersClients, watchers, chans, upd, sub, hist, loop>>

\* ClustersNamespaces.Get(cluster): the cached list, empty when there is none.
ClustersNamespacesGet(cache, n) == IF cache[n] = NoEntry THEN {} ELSE cache[n]

\* The task's clusterNs := cf.clustersNamespaces.Get(cluster.GetName()).
UserNsTaskRead(k, i) ==
    /\ call[k].pc = "nswait"
    /\ i \in DOMAIN call[k].nsTask
    /\ call[k].nsTask[i] = "read"
    /\ call' = [call EXCEPT ![k].nsTask[i] = "filter",
                            ![k].nsSeen[i] =
                               ClustersNamespacesGet(clustersNamespaces,
                                                     call[k].nsTargets[i].name)]
    /\ UNCHANGED <<clusters, clustersHash, clustersNamespaces, usersNamespaces,
                   usersClients, watchers, chans, upd, sub, hist, loop>>

\* nsChecker.FilterAccessibleNamespaces(ctx, authClient, namespaces)
FilterAccessibleNamespaces(u, nss) == nss \cap Accessible(u)

\* UsersNamespaces.Set(user, clusterName, namespaces)
UsersNamespacesSet(cache, u, n, nss) == [cache EXCEPT ![<<u, n>>] = nss]

\* UpdateUserNamespaces(ctx, user) called for itself, not by userNsList.
CallUpdateUserNamespaces(k, u) ==
    /\ call[k].pc = "idle"
    /\ call' = [call EXCEPT ![k] =
                 [IdleCall EXCEPT !.op = "UpdateUserNamespaces", !.user = u,
                                  !.pc = "nsspawn"]]
    /\ UNCHANGED <<clusters, clustersHash, clustersNamespaces, usersNamespaces,
                   usersClients, watchers, chans, upd, sub, hist, loop>>

\* GetUserNamespaces(user) that computes the entries when it finds none.
CallGetUserNamespacesComputing(k, u) ==
    /\ call[k].pc = "idle"
    /\ call' = [call EXCEPT ![k] =
                 IF DOMAIN GetUserNamespaces(u) = {}
                 THEN [IdleCall EXCEPT !.op = "GetUserNamespaces", !.user = u,
                                       !.pc = "nsspawn"]
                 ELSE [IdleCall EXCEPT !.op = "GetUserNamespaces", !.user = u,
                                       !.pc = "returned",
                                       !.ns = GetUserNamespaces(u)]]
    /\ UNCHANGED <<clusters, clustersHash, clustersNamespaces, usersNamespaces,
                   usersClients, watchers, chans, upd, sub, hist, loop>>

\* GetUserNamespaces(user) called for itself: the map of GetAll is all it
\* returns, there is no error value. What GetAll does with a nil user is
\* not in the source, and it is taken to find no entry.
CallGetUserNamespaces(k, u) ==
    /\ call[k].pc = "idle"
    /\ call' = [call EXCEPT ![k] =
                 [IdleCall EXCEPT !.op = "GetUserNamespaces", !.user = u,
                                  !.pc = "returned",
                                  !.ns = IF u = NoUser THEN EmptyPool
                                         ELSE GetUserNamespaces(u)]]
    /\ UNCHANGED <<clusters, clustersHash, clustersNamespaces, usersNamespaces,
                   usersClients, watchers, chans, upd, sub, hist, loop>>

\* A task that stores the list of the Namespace Cache as it read it, and
\* after a failure an empty one.
UserNsTaskFilterUnfiltered(k, i, checked) ==
    /\ call[k].pc = "nswait"
    /\ i \in DOMAIN call[k].nsTask
    /\ call[k].nsTask[i] = "filter"
    /\ call' = [call EXCEPT ![k].nsTask[i] = "done"]
    /\ usersNamespaces' =
          UsersNamespacesSet(usersNamespaces, call[k].user,
                             call[k].nsTargets[i].name,
                             IF checked THEN call[k].nsSeen[i] ELSE {})
    /\ UNCHANGED <<clusters, clustersHash, clustersNamespaces,
                   usersClients, watchers, chans, upd, sub, hist, loop>>

\* GetClustersNamespaces() called by a reader: it returns the map of the
\* Namespace Cache itself (nsLive), which held ns at that instant.
CallGetClustersNamespaces(k) ==
    /\ call[k].pc = "idle"
    /\ call' = [call EXCEPT ![k] =
                 [IdleCall EXCEPT !.op = "GetClustersNamespaces",
                                  !.pc = "returned",
                                  !.ns = GetClustersNamespaces,
                                  !.nsLive = TRUE]]
    /\ UNCHANGED <<clusters, clustersHash, clustersNamespaces, usersNamespaces,
                   usersClients, watchers, chans, upd, sub, hist, loop>>

\* What the holder of the results of call c finds in its namespace map: the
\* content of the Namespace Cache of this moment when the map is the
\* cache's own, the content it was given otherwise.
Held(c) == IF c.nsLive THEN GetClustersNamespaces ELSE c.ns

\* The rest of the task: GetUserClientset, FilterAccessibleNamespaces and
\* cf.usersNamespaces.Set; a failure of either (checked = FALSE) is logged
\* and writes nothing. The log call reads user.ID, which for a nil user is
\* a nil dereference that panics; what Set does with a nil user is not in
\* the source, and it is taken to store nothing.
UserNsTaskFilter(k, i, checked) ==
    /\ call[k].pc = "nswait"
    /\ i \in DOMAIN call[k].nsTask
    /\ call[k].nsTask[i] = "filter"
    /\ call' = IF ~checked /\ call[k].user = NoUser
               THEN [call EXCEPT ![k].pc = "panicked"]
               ELSE [call EXCEPT ![k].nsTask[i] = "done"]
    /\ IF ~checked \/ call[k].user = NoUser
       THEN UNCHANGED usersNamespaces
       ELSE usersNamespaces' =
               UsersNamespacesSet(usersNamespaces, call[k].user,
                                  call[k].nsTargets[i].name,
                                  FilterAccessibleNamespaces(call[k].user,
                                                             call[k].nsSeen[i]))
    /\ UNCHANGED <<clusters, clustersHash, clustersNamespaces,
                   usersClients, watchers, chans, upd, sub, hist, loop>>

\* userNsList, second half: wg.Wait() of UpdateUserNamespaces, then
\* GetUserNamespaces(user) again.
UserNsJoin(k) ==
    /\ call[k].pc = "nswait"
    /\ AllDone(call[k].nsTask)
    /\ call' = [call EXCEPT ![k] =
                 IF call[k].op = "UpdateUserNamespaces"
                 THEN [call[k] EXCEPT !.pc = "returned"]
                 ELSE ReturnClient(call[k], GetUserNamespaces(call[k].user), FALSE)]
    /\ UNCHANGED <<clusters, clustersHash, clustersNamespaces, usersNamespaces,
                   usersClients, watchers, chans, upd, sub, hist, loop>>

\* The cluster GetImpersonatedClientForCluster's loop leaves in cl: the first
\* of the registry with the name, the nil interface value when there is none.
FindCluster(cs, n) ==
    IF \E i \in DOMAIN cs : cs[i].name = n
    THEN cs[CHOOSE i \in DOMAIN cs :
               /\ cs[i].name = n
               /\ \A j \in DOMAIN cs : cs[j].name = n => i <= j]
    ELSE NoCluster

\* What `cl.GetName() == ""` does for the cl the loop left: cl is of the
\* interface type cluster.Cluster, and a method call on its nil value is a
\* nil dereference, which panics before the comparison is made.
NotFoundOutcome(c, n) == [c EXCEPT !.pc = "panicked"]

\* GetImpersonatedClientForCluster(ctx, user, clusterName) up to
\* getOrCreateClient; the client is then built by the steps of a single task.
GetImpersonatedClientForCluster(k, u, n) ==
    /\ call[k].pc = "idle"
    /\ LET c0 == [IdleCall EXCEPT !.op = "GetImpersonatedClientForCluster",
                                  !.user = u, !.arg = n]
           cl == FindCluster(clusters, n)
       IN  call' = [call EXCEPT ![k] =
                     IF u = NoUser
                     THEN [c0 EXCEPT !.pc = "returned", !.err = <<"no user supplied">>]
                     ELSE IF cl = NoCluster
                     THEN NotFoundOutcome(c0, n)
                     ELSE [c0 EXCEPT !.pc = "wait", !.cap = 1,
                                     !.targets = <<cl>>,
                                     !.task = <<"lookup">>,
                                     !.got = <<NoClient>>]]
    /\ UNCHANGED <<clusters, clustersHash, clustersNamespaces, usersNamespaces,
                   usersClients, watchers, chans, upd, sub, hist, loop>>

\* GetImpersonatedDiscoveryClient(ctx, user, clusterName): the nil check,
\* then the first cluster of the registry with the name and its
\* GetUserClientset(user), which fails when built is FALSE; no cache is read
\* or written and no task is started.
GetImpersonatedDiscoveryClient(k, u, n, built) ==
    /\ call[k].pc = "idle"
    /\ LET c0 == [IdleCall EXCEPT !.op = "GetImpersonatedDiscoveryClient",
                                  !.user = u, !.arg = n, !.pc = "returned"]
       IN  call' = [call EXCEPT ![k] =
                     IF u = NoUser
                     THEN [c0 EXCEPT !.err = <<"no user supplied">>]
                     ELSE IF FindCluster(clusters, n) = NoCluster
                     THEN [c0 EXCEPT !.err = <<"cluster not found">>]
                     ELSE IF ~built
                     THEN [c0 EXCEPT !.err = <<"error creating client for cluster">>]
                     ELSE [c0 EXCEPT !.client = "discovery"]]
    /\ UNCHANGED <<clusters, clustersHash, clustersNamespaces, usersNamespaces,
                   usersClients, watchers, chans, upd, sub, hist, loop>>

\* Client.Scoped(clusterName): the client of the cluster when the pool holds
\* one, the "cluster not found" condition otherwise.
Scoped(pool, n) == IF PoolHas(pool, n) THEN "scoped" ELSE "nil"

\* GetSessionLogs(ctx, msg) from the return of its GetImpersonatedClient:
\* any non-nil error of that call is returned as the handler's error, and
\* only after a nil error is the client scoped to msg.GetClusterName().
GetSessionLogs(k, n) ==
    /\ call[k].op = "GetImpersonatedClient"
    /\ call[k].pc = "returned"
    /\ LET c == [call[k] EXCEPT !.op = "GetSessionLogs", !.arg = n]
       IN  call' = [call EXCEPT ![k] =
                     IF c.err /= <<>>
                     THEN [c EXCEPT !.client = "nil",
                                    !.err = <<"error getting impersonating client">>]
                     ELSE IF Scoped(c.pool, n) = "nil"
                     THEN [c EXCEPT !.client = "nil",
                                    !.err = <<"getting cluster client">>]
                     ELSE [c EXCEPT !.client = Scoped(c.pool, n)]]
    /\ UNCHANGED <<clusters, clustersHash, clustersNamespaces, usersNamespaces,
                   usersClients, watchers, chans, upd, sub, hist, loop>>

\* The caller takes the results; its goroutine is free for the next call.
Return(k) ==
    /\ call[k].pc = "returned"
    /\ call' = [call EXCEPT ![k] = IdleCall]
    /\ UNCHANGED <<clusters, clustersHash, clustersNamespaces, usersNamespaces,
                   usersClients, watchers, chans, upd, sub, hist, loop>>

\* GetSessionLogs returns to its caller.
GetSessionLogsReturn(k) ==
    /\ call[k].op = "GetSessionLogs"
    /\ Return(k)

---------------------------------------------------------------------------
(* The namespace refresh: UpdateNamespaces and syncCaches *)

\* What a successful list of a cluster's namespaces may return.
NsListings == {{"n1"}, {"n1", "n2"}}
\* The mark of a list that failed (never a namespace name).
ListFailed == {"<list failed>"}

\* UpdateNamespaces(ctx) begins with cf.GetServerClient(ctx).
UpdateNamespaces(k) ==
    /\ call[k].pc = "idle"
    /\ FanOutStart(k, "UpdateNamespaces", NoUser)
    /\ UNCHANGED <<clusters, clustersHash, clustersNamespaces, usersNamespaces,
                   usersClients, watchers, chans, upd, sub, hist, loop>>

\* GetServerClient has returned its pool and its combined error, whose
\* ClientErrors UpdateNamespaces keeps in result.
UpdateNamespacesGotClient(k) ==
    /\ call[k].pc = "wait"
    /\ AllDone(call[k].task)
    /\ call[k].op = "UpdateNamespaces"
    /\ call' = [call EXCEPT ![k].pc = "sync"]
    /\ UNCHANGED <<clusters, clustersHash, clustersNamespaces, usersNamespaces,
                   usersClients, watchers, chans, upd, sub, hist, loop>>

\* A comparison that never finds the hash changed.
HashChangedNever(cs, h) == FALSE

\* Whether syncCaches finds the hash of the registry changed.
HashChanged(cs, h) == RegistryHash(cs) /= h

\* syncCaches, first half: newHash := cf.clusters.Hash(), the comparison
\* with cf.clustersHash and cf.clustersNamespaces.Clear().
syncCaches(k) ==
    /\ call[k].pc = "sync"
    /\ IF HashChanged(clusters, clustersHash)
       THEN /\ clustersNamespaces' = EmptyNamespaces
            /\ call' = [call EXCEPT ![k].pc = "clear", ![k].changed = TRUE,
                                    ![k].arg = RegistryHash(clusters)]
       ELSE /\ call' = [call EXCEPT ![k].pc = "list"]
            /\ UNCHANGED clustersNamespaces
    /\ hist' = [hist EXCEPT !.dirty = FALSE]
    /\ UNCHANGED <<clusters, clustersHash, usersNamespaces,
                   usersClients, watchers, chans, upd, sub, loop>>

\* A second half that clears the User Client Cache as well.
syncCachesClearAll(k) ==
    /\ call[k].pc = "clear"
    /\ usersNamespaces' = EmptyUsersNamespaces
    /\ usersClients' = EmptyClients
    /\ clustersHash' = call[k].arg
    /\ call' = [call EXCEPT ![k].pc = "list"]
    /\ UNCHANGED <<clusters, clustersNamespaces,
                   watchers, chans, upd, sub, hist, loop>>

\* syncCaches, second half: cf.usersNamespaces.Clear() and
\* cf.clustersHash = newHash.
syncCachesClearUsers(k) ==
    /\ call[k].pc = "clear"
    /\ usersNamespaces' = EmptyUsersNamespaces
    /\ clustersHash' = call[k].arg
    /\ call' = [call EXCEPT ![k].pc = "list"]
    /\ UNCHANGED <<clusters, clustersNamespaces,
                   usersClients, watchers, chans, upd, sub, hist, loop>>

\* A list step in which a cluster that failed has an empty list of
\* namespaces among the results.
ClusteredListNamespacesKeepingFailed(k, L) ==
    /\ call[k].pc = "list"
    /\ DOMAIN L = DOMAIN call[k].pool
    /\ LET bad == SortedNames({n \in DOMAIN L : L[n] = ListFailed})
       IN  call' = [call EXCEPT
                      ![k].pc = "write",
                      ![k].asked = L,
                      ![k].lists = [n \in DOMAIN L |->
                                      IF L[n] = ListFailed THEN {} ELSE L[n]],
                      ![k].errs = @ \o [i \in DOMAIN bad |->
                                          ClientError(bad[i], "failed to list")]]
    /\ UNCHANGED <<clusters, clustersHash, clustersNamespaces, usersNamespaces,
                   usersClients, watchers, chans, upd, sub, hist, loop>>

\* serverClient.ClusteredList(ctx, nsList, false): every cluster of the pool
\* is listed; a cluster that fails adds its error to result and has no list.
\* L gives the outcome of each cluster's list.
ClusteredListNamespaces(k, L) ==
    /\ call[k].pc = "list"
    /\ DOMAIN L = DOMAIN call[k].pool
    /\    LET ok == {n \in DOMAIN L : L[n] /= ListFailed}
              bad == SortedNames({n \in DOMAIN L : L[n] = ListFailed})
          IN  call' = [call EXCEPT
                         ![k].pc = "write",
                         ![k].asked = L,
                         ![k].lists = [n \in ok |-> L[n]],
                         ![k].errs = @ \o [i \in DOMAIN bad |->
                                             ClientError(bad[i], "failed to list")]]
    /\ UNCHANGED <<clusters, clustersHash, clustersNamespaces, usersNamespaces,
                   usersClients, watchers, chans, upd, sub, hist, loop>>

\* ClustersNamespaces.Set(cluster, namespaces)
ClustersNamespacesSet(cache, n, nss) == [cache EXCEPT ![n] = nss]

\* One round of `for clusterName, lists := range nsList.Lists()`, in the
\* order the map yields: cf.clustersNamespaces.Set(clusterName, list.Items).
UpdateNamespacesWrite(k) ==
    /\ call[k].pc = "write"
    /\ \E n \in DOMAIN call[k].lists :
          /\ clustersNamespaces' =
                ClustersNamespacesSet(clustersNamespaces, n, call[k].lists[n])
          /\ call' = [call EXCEPT ![k].lists =
                         [m \in DOMAIN call[k].lists \ {n} |-> call[k].lists[m]]]
    /\ UNCHANGED <<clusters, clustersHash, usersNamespaces,
                   usersClients, watchers, chans, upd, sub, hist, loop>>

\* return result.ErrorOrNil()
UpdateNamespacesReturn(k) ==
    /\ call[k].pc = "write"
    /\ DOMAIN call[k].lists = {}
    /\ call' = [call EXCEPT ![k].pc = "returned", ![k].err = call[k].errs]
    /\ UNCHANGED <<clusters, clustersHash, clustersNamespaces, usersNamespaces,
                   usersClients, watchers, chans, upd, sub, hist, loop>>

---------------------------------------------------------------------------
(* Client.ClusteredList on an aggregated client *)

\* The clusters of the pool that ClusteredList queries: all of them, or with
\* restrictToAccessible those on which the client's namespace map holds at
\* least one namespace.
Queried(pool, ns, restrict) ==
    IF restrict
    THEN {n \in DOMAIN pool : n \in DOMAIN ns /\ ns[n] /= {}}
    ELSE DOMAIN pool

\* A ClusteredList that queries a cluster without accessible namespaces for
\* all its namespaces.
ClusteredListsUnrestricted(pool, ns, restrict, L) ==
    [n \in {m \in DOMAIN pool : L[m] /= ListFailed} |-> L[n]]

\* The per-cluster results of ClusteredList: L[n] is what the list of cluster
\* n finds (the namespaces that hold an object) or ListFailed. A cluster
\* that is not queried has an empty result; a queried cluster that fails has
\* none; with restrictToAccessible the query is scoped to the accessible
\* namespaces.
ClusteredLists(pool, ns, restrict, L) ==
    LET q == Queried(pool, ns, restrict)
    IN  [n \in {m \in DOMAIN pool : m \notin q \/ L[m] /= ListFailed} |->
            IF n \notin q THEN {}
            ELSE IF restrict THEN L[n] \cap ns[n]
            ELSE L[n]]

\* The combined error of ClusteredList: one error per queried cluster whose
\* list failed.
ClusteredListErrs(pool, ns, restrict, L) ==
    LET bad == SortedNames({n \in Queried(pool, ns, restrict) : L[n] = ListFailed})
    IN  [i \in DOMAIN bad |-> ClientError(bad[i], "failed to list")]

\* client.ClusteredList(ctx, list, restrictToAccessible) called by a request
\* handler on the client its GetImpersonatedClient returned.
ClusteredList(k, restrict, L) ==
    /\ call[k].pc = "returned"
    /\ call[k].op = "GetImpersonatedClient"
    /\ call[k].client = "client"
    /\ DOMAIN L = DOMAIN call[k].pool
    /\ call' = [call EXCEPT
                  ![k].op = "ClusteredList",
                  ![k].arg = IF restrict THEN "restricted" ELSE "all",
                  ![k].asked = L,
                  ![k].lists = ClusteredLists(call[k].pool, call[k].ns, restrict, L),
                  ![k].err = ClusteredListErrs(call[k].pool, call[k].ns, restrict, L)]
    /\ UNCHANGED <<clusters, clustersHash, clustersNamespaces, usersNamespaces,
                   usersClients, watchers, chans, upd, sub, hist, loop>>

---------------------------------------------------------------------------
(* The watcher hub and the cluster refresh *)

\* The goroutines that subscribe; each owns the watcher Subscribe gives it.
Subs == {"w1", "w2"}
\* The goroutines that call UpdateClusters.
Refreshers == {"loop"}
\* The same with a caller of the manager's UpdateClusters besides the
\* refresh loop.
Callers == Refreshers \cup {"caller"}

\* How many changes of the cluster set a run records.
MaxChanges == 2

\* make(chan ClusterListUpdate, 1)
ChanCap == 1

IdleUpd == [pc |-> "idle", added |-> <<>>, removed |-> <<>>,
            snap |-> <<>>, idx |-> 0, err |-> ""]

\* The goroutines Start launches: where watchClusters and watchNamespaces
\* are, and how many times cf.initialClustersLoad was sent on. Before Start
\* there are none, and UpdateClusters and UpdateNamespaces run for whoever
\* calls them.
LoopsOff == [clusters |-> "off", namespaces |-> "off", sent |-> 0]

\* UpdateClusters returns to its caller: watchClusters, when the call was its
\* first, goes on to `cf.initialClustersLoad <- true`.
AfterUpdateClusters(l, r, u) ==
    IF r = "loop" /\ l.clusters = "first" /\ u.pc = "idle"
    THEN [l EXCEPT !.clusters = "signal"]
    ELSE l
\* The mark of a subscriber that has not read the registry (never a name).
Unread == {"<unread>"}
NoSub == [pc |-> "none", snap |-> <<>>, recv |-> <<>>, via |-> "",
          seen |-> Unread]
NewChan == [buf |-> <<>>, closed |-> FALSE]

\* An update with its two lists exchanged.
ClusterListUpdateSwapped(a, r) == [Added |-> r, Removed |-> a]

\* ClusterListUpdate{Added, Removed}
ClusterListUpdate(a, r) == [Added |-> a, Removed |-> r]

\* Subscribe(), first half: the watcher and its channel are made and
\* cf.watchers is read for the append.
Subscribe(s) ==
    /\ sub[s].pc = "none"
    /\ sub' = [sub EXCEPT ![s].pc = "subscribing", ![s].snap = watchers]
    /\ UNCHANGED <<clusters, clustersHash, clustersNamespaces, usersNamespaces,
                   usersClients, call, watchers, chans, upd, hist, loop>>

\* Subscribe(), second half: cf.watchers = append(<the list read>, cw).
SubscribeAppend(s) ==
    /\ sub[s].pc = "subscribing"
    /\ watchers' = Append(sub[s].snap, s)
    /\ sub' = [sub EXCEPT ![s].pc = "active", ![s].snap = <<>>]
    /\ UNCHANGED <<clusters, clustersHash, clustersNamespaces, usersNamespaces,
                   usersClients, call, chans, upd, hist, loop>>

\* GetClusters(), called by a subscriber once its Subscribe has returned:
\* the names of cf.clusters.Get().
GetClusters(s) ==
    /\ sub[s].pc = "active"
    /\ sub[s].seen = Unread
    /\ sub' = [sub EXCEPT ![s].seen = NamesOf(clusters)]
    /\ UNCHANGED <<clusters, clustersHash, clustersNamespaces, usersNamespaces,
                   usersClients, call, watchers, chans, upd, hist, loop>>

\* The subscriber receives from cw.Updates: a buffered update, if any.
Receive(s) ==
    /\ sub[s].pc \in {"active", "removing", "closing", "removed", "closed"}
    /\ chans[s].buf /= <<>>
    /\ sub' = [sub EXCEPT ![s].recv = Append(@, Head(chans[s].buf))]
    /\ chans' = [chans EXCEPT ![s].buf = Tail(@)]
    /\ UNCHANGED <<clusters, clustersHash, clustersNamespaces, usersNamespaces,
                   usersClients, call, watchers, upd, hist, loop>>

\* RemoveWatcher(cw), first half: `range cf.watchers` reads the list. It is
\* called by cw.Unsubscribe() or directly by the owner of the watcher.
RemoveWatcher(s, via) ==
    /\ sub[s].pc = "active"
    /\ sub' = [sub EXCEPT ![s].pc = "removing", ![s].snap = watchers,
                          ![s].via = via]
    /\ UNCHANGED <<clusters, clustersHash, clustersNamespaces, usersNamespaces,
                   usersClients, call, watchers, chans, upd, hist, loop>>

\* The list RemoveWatcher builds from the one it read.
WithoutWatcher(ws, s) == SelectSeq(ws, LAMBDA w : w /= s)

\* RemoveWatcher(cw), second half: cf.watchers = watchers.
RemoveWatcherAssign(s) ==
    /\ sub[s].pc = "removing"
    /\ watchers' = WithoutWatcher(sub[s].snap, s)
    /\ sub' = [sub EXCEPT ![s].pc = IF sub[s].via = "Unsubscribe"
                                    THEN "closing" ELSE "removed",
                          ![s].snap = <<>>]
    /\ UNCHANGED <<clusters, clustersHash, clustersNamespaces, usersNamespaces,
                   usersClients, call, chans, upd, hist, loop>>

\* Unsubscribe(), after RemoveWatcher: close(cw.Updates).
UnsubscribeClose(s) ==
    /\ sub[s].pc = "closing"
    /\ chans' = [chans EXCEPT ![s].closed = TRUE]
    /\ sub' = [sub EXCEPT ![s].pc = "closed"]
    /\ UNCHANGED <<clusters, clustersHash, clustersNamespaces, usersNamespaces,
                   usersClients, call, watchers, upd, hist, loop>>

\* The record a run keeps of a change of the cluster set: that the membership
\* changed since syncCaches last looked (dirty) and, in the runs of the
\* watcher hub, the change itself.
Recorded(h, old, new) ==
    IF SetAdded(old, new) /= <<>> \/ SetRemoved(old, new) /= <<>>
    THEN [h EXCEPT !.dirty = TRUE,
                   !.changes = IF h.track
                               THEN Append(@, [before |-> old, after |-> new])
                               ELSE @]
    ELSE h

\* An UpdateClusters that takes a failed Fetch for an empty list of clusters.
UpdateClustersClearingOnError(r, fetched, d) ==
    /\ upd[r].pc = "idle"
    /\ hist.track => Len(hist.changes) < MaxChanges
    /\ LET new == IF fetched THEN d ELSE <<>>
           msg == IF fetched THEN "" ELSE "failed to fetch clusters"
       IN  /\ clusters' = new
           /\ hist' = Recorded(hist, clusters, new)
           /\ upd' = [upd EXCEPT ![r] =
                        IF SetAdded(clusters, new) /= <<>>
                           \/ SetRemoved(clusters, new) /= <<>>
                        THEN [IdleUpd EXCEPT !.pc = "range", !.err = msg,
                                             !.added = SetAdded(clusters, new),
                                             !.removed = SetRemoved(clusters, new)]
                        ELSE [IdleUpd EXCEPT !.err = msg]]
    /\ loop' = AfterUpdateClusters(loop, r, upd'[r])
    /\ UNCHANGED <<clustersHash, clustersNamespaces, usersNamespaces,
                   usersClients, call, watchers, chans, sub>>

\* An UpdateClusters that goes on to notify the watchers of the diff
\* without having replaced the registry.
UpdateClustersKeepingRegistry(r, fetched, d) ==
    /\ upd[r].pc = "idle"
    /\ hist.track => Len(hist.changes) < MaxChanges
    /\    IF ~fetched
          THEN /\ upd' = [upd EXCEPT ![r] =
                            [IdleUpd EXCEPT !.err = "failed to fetch clusters"]]
               /\ UNCHANGED hist
          ELSE /\ hist' = Recorded(hist, clusters, d)
               /\ upd' = [upd EXCEPT ![r] =
                            IF SetAdded(clusters, d) /= <<>>
                               \/ SetRemoved(clusters, d) /= <<>>
                            THEN [IdleUpd EXCEPT !.pc = "range",
                                                 !.added = SetAdded(clusters, d),
                                                 !.removed = SetRemoved(clusters, d)]
                            ELSE IdleUpd]
    /\ loop' = AfterUpdateClusters(loop, r, upd'[r])
    /\ UNCHANGED <<clusters, clustersHash, clustersNamespaces, usersNamespaces,
                   usersClients, call, watchers, chans, sub>>

\* UpdateClusters(ctx) up to the test of the diff: Fetch, and on success
\* cf.clusters.Set(clusters); a failed Fetch returns its error.
\* fetched and d are what Fetch returns.
UpdateClusters(r, fetched, d) ==
    /\ upd[r].pc = "idle"
    /\ hist.track => Len(hist.changes) < MaxChanges
    /\    IF ~fetched
          THEN /\ upd' = [upd EXCEPT ![r] =
                            [IdleUpd EXCEPT !.err = "failed to fetch clusters"]]
               /\ UNCHANGED <<clusters, hist>>
          ELSE /\ clusters' = d
               /\ hist' = Recorded(hist, clusters, d)
               /\ upd' = [upd EXCEPT ![r] =
                            IF SetAdded(clusters, d) /= <<>>
                               \/ SetRemoved(clusters, d) /= <<>>
                            THEN [IdleUpd EXCEPT !.pc = "range",
                                                 !.added = SetAdded(clusters, d),
                                                 !.removed = SetRemoved(clusters, d)]
                            ELSE IdleUpd]
    /\ loop' = AfterUpdateClusters(loop, r, upd'[r])
    /\ UNCHANGED <<clustersHash, clustersNamespaces, usersNamespaces,
                   usersClients, call, watchers, chans, sub>>

\* `for _, w := range cf.watchers`: the list is read once, when the loop starts.
UpdateClustersRange(r) ==
    /\ upd[r].pc = "range"
    /\ upd' = [upd EXCEPT ![r] =
                 IF watchers = <<>> THEN IdleUpd
                 ELSE [upd[r] EXCEPT !.pc = "notify", !.snap = watchers, !.idx = 1]]
    /\ loop' = AfterUpdateClusters(loop, r, upd'[r])
    /\ UNCHANGED <<clusters, clustersHash, clustersNamespaces, usersNamespaces,
                   usersClients, call, watchers, chans, sub, hist>>

\* w.Notify(added, removed): cw.Updates <- ClusterListUpdate{...}. The send
\* waits while the buffer is full and panics on a closed channel, also when
\* the channel is closed while the send waits.
Notify(r) ==
    /\ upd[r].pc = "notify"
    /\ LET w == upd[r].snap[upd[r].idx]
       IN  IF chans[w].closed
           THEN /\ upd' = [upd EXCEPT ![r].pc = "panicked"]
                /\ UNCHANGED chans
           ELSE /\ Len(chans[w].buf) < ChanCap
                /\ chans' = [chans EXCEPT ![w].buf =
                               Append(@, ClusterListUpdate(upd[r].added,
                                                           upd[r].removed))]
                /\ upd' = [upd EXCEPT ![r] =
                             IF upd[r].idx = Len(upd[r].snap) THEN IdleUpd
                             ELSE [upd[r] EXCEPT !.idx = @ + 1]]
    /\ loop' = AfterUpdateClusters(loop, r, upd'[r])
    /\ UNCHANGED <<clusters, clustersHash, clustersNamespaces, usersNamespaces,
                   usersClients, call, watchers, sub, hist>>

---------------------------------------------------------------------------
(* Start and its two loops *)

\* Start(ctx): go cf.watchClusters(ctx); go cf.watchNamespaces(ctx).
\* watchClusters is about to make its first UpdateClusters call and
\* watchNamespaces is at `<-cf.initialClustersLoad`.
Start ==
    /\ loop.clusters = "off"
    /\ loop' = [loop EXCEPT !.clusters = "first", !.namespaces = "waiting"]
    /\ UNCHANGED <<clusters, clustersHash, clustersNamespaces, usersNamespaces,
                   usersClients, call, watchers, chans, upd, sub, hist>>

\* watchClusters calls UpdateClusters: once before the signal, then from
\* wait.PollImmediateInfinite on every tick, whatever the call returned.
WatchClustersUpdate(r, fetched, d) ==
    /\ loop.clusters \in {"first", "poll"}
    /\ UpdateClusters(r, fetched, d)

\* `cf.initialClustersLoad <- true` meets `<-cf.initialClustersLoad`: the
\* channel has no buffer, so the send and the receive are one step, after
\* which both goroutines are in their polls.
InitialClustersLoad ==
    /\ loop.clusters = "signal"
    /\ loop.namespaces = "waiting"
    /\ loop' = [loop EXCEPT !.clusters = "poll", !.namespaces = "poll",
                            !.sent = @ + 1]
    /\ UNCHANGED <<clusters, clustersHash, clustersNamespaces, usersNamespaces,
                   usersClients, call, watchers, chans, upd, sub, hist>>

\* A watchNamespaces that does not wait for the signal.
InitialLoadNotAwaited(l) == l.namespaces \in {"waiting", "poll"}

\* watchNamespaces is past `<-cf.initialClustersLoad`.
InitialLoadReceived(l) == l.namespaces = "poll"

\* watchNamespaces calls UpdateNamespaces on a tick of its poll.
WatchNamespacesUpdate(k) ==
    /\ InitialLoadReceived(loop)
    /\ UpdateNamespaces(k)

---------------------------------------------------------------------------
(* The environment *)

\* The TTL of an entry of the User Client Cache elapses.
ExpireClient(key) ==
    /\ usersClients[key] /= NoClient
    /\ usersClients' = [usersClients EXCEPT ![key] = NoClient]
    /\ UNCHANGED <<clusters, clustersHash, clustersNamespaces, usersNamespaces,
                   call, watchers, chans, upd, sub, hist, loop>>

\* The TTL of an entry of the User Namespace Cache elapses.
ExpireUserNamespaces(key) ==
    /\ usersNamespaces[key] /= NoEntry
    /\ usersNamespaces' = [usersNamespaces EXCEPT ![key] = NoEntry]
    /\ UNCHANGED <<clusters, clustersHash, clustersNamespaces, usersClients,
                   call, watchers, chans, upd, sub, hist, loop>>

---------------------------------------------------------------------------
(* The specifications *)

\* NewClustersManager(...): the state after construction.
InitManager ==
    /\ clusters = <<>>
    /\ clustersHash = ""
    /\ clustersNamespaces = EmptyNamespaces
    /\ usersNamespaces = EmptyUsersNamespaces
    /\ usersClients = EmptyClients
    /\ call = [k \in Slots |-> IdleCall]
    /\ watchers = <<>>
    /\ chans = [s \in Subs |-> NewChan]
    /\ upd = [r \in Callers |-> IdleUpd]
    /\ sub = [s \in Subs |-> NoSub]
    /\ loop = LoopsOff

\* The per-cluster steps of a call of goroutine k.
CallSteps(k) ==
    \/ FanOutSpawn(k)
    \/ \E i \in 1..Cardinality(Names) :
          \/ getOrCreateClientGet(k, i)
          \/ \E built \in BOOLEAN : getOrCreateClientCreate(k, i, built)
          \/ TaskPoolAdd(k, i)
          \/ UserNsTaskRead(k, i)
          \/ \E checked \in BOOLEAN : UserNsTaskFilter(k, i, checked)
    \/ FanOutJoin(k)
    \/ UpdateUserNamespaces(k)
    \/ UserNsJoin(k)
    \/ Return(k)

\* The request handlers' calls for clients, concurrent with cluster refreshes.
NoHistory == [track |-> FALSE, changes |-> <<>>, dirty |-> FALSE]

InitClients == InitManager /\ hist = NoHistory

NextClients ==
    \/ \E u \in {"u1", NoUser} : GetImpersonatedClient("req", u)
    \/ \E u \in {"u1", NoUser}, n \in {"a", "ab"} :
          GetImpersonatedClientForCluster("req", u, n)
    \/ CallSteps("req")
    \/ \E fetched \in BOOLEAN, d \in ClientsDiscoveries :
          UpdateClusters("loop", fetched, d)
    \/ UpdateClustersRange("loop")

SpecClients == InitClients /\ [][NextClients]_vars

\* The same, with the server's own calls for clients.
NextFanOut == NextClients \/ GetServerClient("req")

SpecFanOut == InitClients /\ [][NextFanOut]_vars

\* What the discovery collaborator returns in the runs of the namespace
\* refresh.
NamespacesDiscoveries == { <<>>, <<Cl("a", 1)>> }

\* The outcomes of the lists of the clusters of a pool, each drawn from R.
ListOutcomes(k, R) == [DOMAIN call[k].pool -> R]

\* The steps of UpdateNamespaces after its GetServerClient.
RefreshSteps(k, R) ==
    \/ UpdateNamespacesGotClient(k)
    \/ syncCaches(k)
    \/ syncCachesClearUsers(k)
    \/ \E L \in ListOutcomes(k, R) : ClusteredListNamespaces(k, L)
    \/ UpdateNamespacesWrite(k)
    \/ UpdateNamespacesReturn(k)

\* The namespace refresh loop, concurrent with cluster refreshes and with a
\* request handler that recomputes a user's namespaces or asks for the
\* server's client.
NextNamespaces ==
    \/ UpdateNamespaces("ns")
    \/ RefreshSteps("ns", NsListings \cup {ListFailed})
    \/ CallUpdateUserNamespaces("req", "u1")
    \/ GetServerClient("req")
    \/ \E k \in Slots : CallSteps(k)
    \/ \E fetched \in BOOLEAN, d \in NamespacesDiscoveries :
          UpdateClusters("loop", fetched, d)
    \/ UpdateClustersRange("loop")

SpecNamespaces == InitClients /\ [][NextNamespaces]_vars

\* The namespace refresh loop and the cluster refresh, with request handlers
\* that fill the User Client Cache and with the TTL of its entries.
NextRefresh ==
    \/ UpdateNamespaces("ns")
    \/ RefreshSteps("ns", {{"n1"}})
    \/ GetImpersonatedClient("req", "u1")
    \/ \E k \in Slots : CallSteps(k)
    \/ \E fetched \in BOOLEAN, d \in NamespacesDiscoveries :
          UpdateClusters("loop", fetched, d)
    \/ UpdateClustersRange("loop")
    \/ \E key \in ClientKeys : ExpireClient(key)

SpecRefresh == InitClients /\ [][NextRefresh]_vars

\* The request handlers' per-user calls, with and without an identity,
\* concurrent with cluster refreshes.
NextUsers ==
    \/ \E u \in {"u1", NoUser} :
          \/ GetImpersonatedClient("req", u)
          \/ \E n \in {"a", "b"} :
                \/ GetImpersonatedClientForCluster("req", u, n)
                \/ \E built \in BOOLEAN :
                      GetImpersonatedDiscoveryClient("req", u, n, built)
          \/ CallUpdateUserNamespaces("req", u)
          \/ CallGetUserNamespaces("req", u)
    \/ CallSteps("req")
    \/ \E fetched \in BOOLEAN, d \in NamespacesDiscoveries :
          UpdateClusters("loop", fetched, d)
    \/ UpdateClustersRange("loop")

SpecUsers == InitClients /\ [][NextUsers]_vars

\* What the discovery collaborator returns in the runs of the watcher hub.
WatchDiscoveries ==
    { <<>>,
      <<Cl("a", 1)>>,
      <<Cl("a", 1), Cl("b", 1)>>,
      <<Cl("ab", 1)>> }

\* The runs of the watcher hub record the changes of the cluster set.
InitWatchers ==
    InitManager /\ hist = [track |-> TRUE, changes |-> <<>>, dirty |-> FALSE]

\* Subscribers that come and go, through Unsubscribe or through the manager's
\* RemoveWatcher, concurrent with the cluster refresh.
NextWatchers ==
    \/ \E s \in Subs :
          \/ Subscribe(s)
          \/ SubscribeAppend(s)
          \/ Receive(s)
          \/ \E via \in {"RemoveWatcher", "Unsubscribe"} : RemoveWatcher(s, via)
          \/ RemoveWatcherAssign(s)
          \/ UnsubscribeClose(s)
    \/ \E fetched \in BOOLEAN, d \in WatchDiscoveries :
          UpdateClusters("loop", fetched, d)
    \/ UpdateClustersRange("loop")
    \/ Notify("loop")

SpecWatchers == InitWatchers /\ [][NextWatchers]_vars

\* One watcher that subscribes, then refreshes that each change the cluster
\* set, then the watcher's Unsubscribe.
ScenarioWatcher == "w1"

\* A refresh of the scenario: after Subscribe has returned, a Fetch that
\* succeeds with a membership other than the registry's.
ScenarioUpdateClusters(r) ==
    /\ sub[ScenarioWatcher].pc = "active"
    /\ \E d \in WatchDiscoveries :
          /\ NamesOf(d) /= NamesOf(clusters)
          /\ UpdateClusters(r, TRUE, d)

\* The Unsubscribe of the scenario: after the refreshes have returned.
ScenarioUnsubscribe(s) ==
    /\ Len(hist.changes) = MaxChanges
    /\ \A r \in Refreshers : upd[r].pc = "idle"
    /\ RemoveWatcher(s, "Unsubscribe")

NextScenario ==
    \/ Subscribe(ScenarioWatcher)
    \/ SubscribeAppend(ScenarioWatcher)
    \/ ScenarioUpdateClusters("loop")
    \/ UpdateClustersRange("loop")
    \/ Notify("loop")
    \/ Receive(ScenarioWatcher)
    \/ ScenarioUnsubscribe(ScenarioWatcher)
    \/ RemoveWatcherAssign(ScenarioWatcher)
    \/ UnsubscribeClose(ScenarioWatcher)

\* The refresh loop keeps running and the watcher keeps receiving.
SpecScenario == InitWatchers /\ [][NextScenario]_vars /\ WF_vars(NextScenario)

\* What the discovery collaborator returns in the runs of the registry: every
\* list of up to MaxClusters clusters with different names, in every order,
\* cluster "a" with either of two connection parameters.
MaxClusters == 2
ClusterValues == {Cl("a", 1), Cl("a", 2), Cl("ab", 1), Cl("b", 1)}

RegistryInputs ==
    UNION {{q \in [1..n -> ClusterValues] :
               \A i, j \in 1..n : i /= j => q[i].name /= q[j].name}
           : n \in 0..MaxClusters}

\* The cluster refresh alone, its changes recorded.
NextRegistry ==
    \/ \E fetched \in BOOLEAN, d \in RegistryInputs :
          UpdateClusters("loop", fetched, d)
    \/ UpdateClustersRange("loop")

SpecRegistry == InitWatchers /\ [][NextRegistry]_vars

\* What the discovery collaborator returns in the runs with reordered
\* lists: the same two clusters in either order, and one of them alone.
ReorderDiscoveries ==
    { <<Cl("a", 1), Cl("b", 1)>>,
      <<Cl("b", 1), Cl("a", 1)>>,
      <<Cl("a", 1)>> }

\* The steps of the fan-out of a call of goroutine k, up to its join.
FanOutSteps(k) ==
    \/ FanOutSpawn(k)
    \/ \E i \in 1..Cardinality(Names) :
          \/ getOrCreateClientGet(k, i)
          \/ \E built \in BOOLEAN : getOrCreateClientCreate(k, i, built)
          \/ TaskPoolAdd(k, i)

\* The namespace refresh, concurrent with cluster refreshes that return the
\* same clusters in another order.
NextReorder ==
    \/ UpdateNamespaces("ns")
    \/ FanOutSteps("ns")
    \/ RefreshSteps("ns", {{"n1"}})
    \/ Return("ns")
    \/ \E fetched \in BOOLEAN, d \in ReorderDiscoveries :
          UpdateClusters("loop", fetched, d)
    \/ UpdateClustersRange("loop")

SpecReorder == InitClients /\ [][NextReorder]_vars

\* A manager that is started: its two loops, with a subscriber.
NextStart ==
    \/ Start
    \/ \E fetched \in BOOLEAN, d \in NamespacesDiscoveries :
          WatchClustersUpdate("loop", fetched, d)
    \/ UpdateClustersRange("loop")
    \/ Notify("loop")
    \/ InitialClustersLoad
    \/ WatchNamespacesUpdate("ns")
    \/ FanOutSteps("ns")
    \/ RefreshSteps("ns", {{"n1"}, ListFailed})
    \/ Return("ns")
    \/ Subscribe("w1")
    \/ SubscribeAppend("w1")
    \/ Receive("w1")

SpecStart == InitWatchers /\ [][NextStart]_vars

\* Two goroutines that ask for the server's clients, the namespace refresh
\* and a request handler, with cluster refreshes and with the TTL of the
\* entries of the User Client Cache.
NextCache ==
    \/ UpdateNamespaces("ns")
    \/ RefreshSteps("ns", {{"n1"}})
    \/ GetServerClient("req")
    \/ FanOutJoin("req")
    \/ \E k \in Slots : FanOutSteps(k) \/ Return(k)
    \/ \E fetched \in BOOLEAN, d \in NamespacesDiscoveries :
          UpdateClusters("loop", fetched, d)
    \/ UpdateClustersRange("loop")
    \/ \E key \in ClientKeys : ExpireClient(key)

SpecCache == InitClients /\ [][NextCache]_vars

\* What the discovery collaborator returns in the runs of the pools: one
\* cluster, and two clusters that carry the same name.
PoolDiscoveries == { <<Cl("a", 1)>>, <<Cl("a", 1), Cl("a", 2)>> }

\* A request handler that calls for a user's aggregated client and a
\* goroutine that calls for the server's, concurrent with each other and
\* with cluster refreshes.
NextPool ==
    \/ GetImpersonatedClient("req", "u1")
    \/ CallSteps("req")
    \/ GetServerClient("ns")
    \/ FanOutSteps("ns")
    \/ FanOutJoin("ns")
    \/ Return("ns")
    \/ \E fetched \in BOOLEAN, d \in PoolDiscoveries :
          UpdateClusters("loop", fetched, d)
    \/ UpdateClustersRange("loop")

SpecPool == InitClients /\ [][NextPool]_vars

\* What the discovery collaborator returns in the runs of GetSessionLogs.
SessionLogsDiscoveries == { <<Cl("a", 1)>>, <<Cl("a", 1), Cl("b", 1)>> }

\* The steps of the user's namespaces that end GetImpersonatedClient.
UserNsSteps(k) ==
    \/ FanOutJoin(k)
    \/ UpdateUserNamespaces(k)
    \/ \E i \in 1..Cardinality(Names) :
          \/ UserNsTaskRead(k, i)
          \/ \E checked \in BOOLEAN : UserNsTaskFilter(k, i, checked)
    \/ UserNsJoin(k)

\* The GetSessionLogs handler, concurrent with cluster refreshes.
NextSessionLogs ==
    \/ GetImpersonatedClient("req", "u1")
    \/ FanOutSteps("req")
    \/ UserNsSteps("req")
    \/ \E n \in {"a", "b"} : GetSessionLogs("req", n)
    \/ GetSessionLogsReturn("req")
    \/ \E fetched \in BOOLEAN, d \in SessionLogsDiscoveries :
          UpdateClusters("loop", fetched, d)
    \/ UpdateClustersRange("loop")

SpecSessionLogs == InitClients /\ [][NextSessionLogs]_vars

\* What the discovery collaborator returns in the runs of ClusteredList.
ListDiscoveries == { <<Cl("a", 1), Cl("b", 1)>> }

\* What a list of a cluster finds in the runs of ClusteredList.
ListFindings == {{"n1"}, {"n2"}, ListFailed}

\* A request handler that lists through a user's aggregated client, with
\* the namespace refresh that fills the Namespace Cache.
NextList ==
    \/ GetImpersonatedClient("req", "u1")
    \/ FanOutSteps("req")
    \/ UserNsSteps("req")
    \/ \E restrict \in BOOLEAN, L \in ListOutcomes("req", ListFindings) :
          ClusteredList("req", restrict, L)
    \/ Return("req")
    \/ UpdateNamespaces("ns")
    \/ FanOutSteps("ns")
    \/ RefreshSteps("ns", {{"n1"}, {"n2"}})
    \/ Return("ns")
    \/ \E d \in ListDiscoveries : UpdateClusters("loop", TRUE, d)
    \/ UpdateClustersRange("loop")

SpecList == InitClients /\ [][NextList]_vars

\* A reader of the two namespace caches, which also recomputes the user's
\* namespaces, concurrent with the namespace refresh and cluster refreshes.
NextReaders ==
    \/ CallGetClustersNamespaces("req")
    \/ CallGetUserNamespaces("req", "u1")
    \/ CallUpdateUserNamespaces("req", "u1")
    \/ UpdateUserNamespaces("req")
    \/ \E i \in 1..Cardinality(Names) :
          \/ UserNsTaskRead("req", i)
          \/ \E checked \in BOOLEAN : UserNsTaskFilter("req", i, checked)
    \/ UserNsJoin("req")
    \/ UpdateNamespaces("ns")
    \/ FanOutSteps("ns")
    \/ RefreshSteps("ns", NsListings)
    \/ \E k \in Slots : Return(k)
    \/ \E fetched \in BOOLEAN, d \in NamespacesDiscoveries :
          UpdateClusters("loop", fetched, d)
    \/ UpdateClustersRange("loop")

SpecReaders == InitClients /\ [][NextReaders]_vars

\* What the discovery collaborator returns in the runs of the refresh of
\* several clusters.
RefreshAllDiscoveries == { <<Cl("a", 1), Cl("b", 1)>>, <<Cl("a", 1)>> }

\* The namespace refresh over several clusters, whose clients may fail to
\* be constructed and whose lists may fail, concurrent with cluster
\* refreshes.
NextRefreshAll ==
    \/ UpdateNamespaces("ns")
    \/ FanOutSteps("ns")
    \/ RefreshSteps("ns", {{"n1"}, {"n2"}, ListFailed})
    \/ Return("ns")
    \/ \E d \in RefreshAllDiscoveries : UpdateClusters("loop", TRUE, d)
    \/ UpdateClustersRange("loop")

SpecRefreshAll == InitClients /\ [][NextRefreshAll]_vars

\* What the discovery collaborator returns in the runs that look at the
\* return of the calls: cluster sets that grow and shrink.
TerminationDiscoveries == { <<>>, <<Cl("a", 1)>>, <<Cl("a", 1), Cl("b", 1)>> }

\* A request handler's GetImpersonatedClient and GetServerClient, concurrent
\* with cluster refreshes that grow and shrink the cluster set.
NextTermination ==
    \/ GetImpersonatedClient("req", "u1")
    \/ GetServerClient("req")
    \/ CallSteps("req")
    \/ \E d \in TerminationDiscoveries : UpdateClusters("loop", TRUE, d)
    \/ UpdateClustersRange("loop")

\* The goroutines of a call keep running: a step of the call that can be
\* taken is taken.
SpecTermination ==
    InitClients /\ [][NextTermination]_vars /\ WF_vars(CallSteps("req"))

\* What the discovery collaborator returns in the runs of the identities.
IdentityDiscoveries == { <<Cl("a", 1)>> }

\* Request handlers' calls for users, one of whom has the id of the
\* server's sentinel, concurrent with the server's own GetServerClient.
NextIdentity ==
    \/ \E u \in UserIds :
          \/ GetImpersonatedClient("req", u)
          \/ GetImpersonatedClientForCluster("req", u, "a")
    \/ CallSteps("req")
    \/ GetServerClient("ns")
    \/ FanOutSteps("ns")
    \/ FanOutJoin("ns")
    \/ Return("ns")
    \/ \E d \in IdentityDiscoveries : UpdateClusters("loop", TRUE, d)
    \/ UpdateClustersRange("loop")

SpecIdentity == InitClients /\ [][NextIdentity]_vars

\* What the discovery collaborator returns in the runs in which a cluster
\* is replaced: the cluster named a with one set of connection parameters,
\* with another, and no cluster.
ReplaceDiscoveries == { <<>>, <<Cl("a", 1)>>, <<Cl("a", 2)>> }

\* A request handler's calls for a user's and for the server's aggregated
\* client, concurrent with discovery cycles that replace the cluster.
NextReplace ==
    \/ GetImpersonatedClient("req", "u1")
    \/ GetServerClient("req")
    \/ CallSteps("req")
    \/ \E d \in ReplaceDiscoveries : UpdateClusters("loop", TRUE, d)
    \/ UpdateClustersRange("loop")
    \/ \E key \in ClientKeys : ExpireClient(key)

SpecReplace == InitClients /\ [][NextReplace]_vars

\* What the discovery collaborator returns in the runs that follow the
\* Namespace Cache across changes of the cluster set.
MembersDiscoveries == { <<Cl("a", 1)>>, <<Cl("b", 1)>> }

\* The runs of UpdateNamespaces, one after the other, of two kinds: those
\* of "ns" are interleaved with cluster refreshes in every way; those of
\* "req" start after the latest change of the cluster set, and the cluster
\* set does not change again before they have returned to their caller.
NextMembers ==
    \/ call["req"].pc = "idle" /\ UpdateNamespaces("ns")
    \/ call["ns"].pc = "idle" /\ UpdateNamespaces("req")
    \/ \E k \in Slots :
          \/ FanOutSteps(k)
          \/ RefreshSteps(k, {{"n1"}})
          \/ Return(k)
    \/ \E d \in MembersDiscoveries :
          call["req"].pc = "idle" /\ UpdateClusters("loop", TRUE, d)
    \/ UpdateClustersRange("loop")

SpecMembers == InitClients /\ [][NextMembers]_vars

\* What the discovery collaborator returns in the runs of the user's
\* namespace map: a cluster set that gains a cluster.
OnDemandDiscoveries == { <<Cl("a", 1)>>, <<Cl("a", 1), Cl("b", 1)>> }

\* A request handler's GetImpersonatedClient for u1 and the namespace
\* refresh, each starting while the other is not running, with cluster
\* refreshes that add a cluster and the TTL of the entries of the User
\* Namespace Cache.
NextOnDemand ==
    \/ call["ns"].pc = "idle" /\ GetImpersonatedClient("req", "u1")
    \/ CallSteps("req")
    \/ call["req"].pc = "idle" /\ UpdateNamespaces("ns")
    \/ FanOutSteps("ns")
    \/ RefreshSteps("ns", {{"n1"}})
    \/ Return("ns")
    \/ \E d \in OnDemandDiscoveries : UpdateClusters("loop", TRUE, d)
    \/ UpdateClustersRange("loop")
    \/ \E key \in ClientKeys : ExpireUserNamespaces(key)

SpecOnDemand == InitClients /\ [][NextOnDemand]_vars

\* One watcher that subscribes, reads the registry and then drains its
\* channel, while the refresh loop and another caller run UpdateClusters
\* concurrently.
NextCallers ==
    \/ Subscribe("w1")
    \/ SubscribeAppend("w1")
    \/ GetClusters("w1")
    \/ sub["w1"].seen /= Unread /\ Receive("w1")
    \/ \E r \in Callers :
          \/ \E d \in WatchDiscoveries : UpdateClusters(r, TRUE, d)
          \/ UpdateClustersRange(r)
          \/ Notify(r)

SpecCallers == InitWatchers /\ [][NextCallers]_vars

---------------------------------------------------------------------------
(* Properties of the calls for clients *)

\* The names of the clusters a combined error reports.
ErrNames(errs) == {errs[i].ClusterName : i \in DOMAIN errs}
ErrCount(errs, n) == Cardinality({i \in DOMAIN errs : errs[i].ClusterName = n})

\* A GetImpersonatedClient call with a user that has returned.
ImpersonatedReturned(k) ==
    /\ call[k].op = "GetImpersonatedClient"
    /\ call[k].pc = "returned"
    /\ call[k].user /= NoUser

\* C1: GetImpersonatedClient(user) with a non-nil user returns a client whose
\* pool holds exactly the known clusters whose client construction did not
\* fail, and a combined error that is non-nil exactly when some construction
\* failed and holds one ClientError per failed cluster, carrying its name.
C1_PoolAndCombinedError ==
    \A k \in Slots :
        ImpersonatedReturned(k) =>
            /\ call[k].client = "client"
            /\ DOMAIN call[k].pool = NamesOf(call[k].targets) \ call[k].failed
            /\ ErrNames(call[k].err) = call[k].failed
            /\ Len(call[k].err) = Cardinality(call[k].failed)
            /\ (call[k].err /= <<>>) <=> (call[k].failed /= {})

\* Three known clusters, the client of one of which could not be built.
C1_Witness ==
    \E k \in Slots :
        /\ ImpersonatedReturned(k)
        /\ Len(call[k].targets) = 3
        /\ Cardinality(call[k].failed) = 1
        /\ Cardinality(DOMAIN call[k].pool) = 2

\* A fan-out call (with a user, or the server's) that has returned.
FanOutReturned(k) ==
    /\ call[k].pc = "returned"
    /\ \/ call[k].op = "GetServerClient"
       \/ call[k].op = "GetImpersonatedClient" /\ call[k].user /= NoUser

\* C2: when GetImpersonatedClient or GetServerClient returns, every task it
\* started has finished, and each cluster it targeted is either in the pool
\* or has exactly one error in the combined error, never neither nor both.
C2_JoinBarrier ==
    \A k \in Slots :
        FanOutReturned(k) =>
            \A i \in DOMAIN call[k].targets :
                LET n == call[k].targets[i].name
                IN  /\ call[k].task[i] = "done"
                    /\ \/ n \in DOMAIN call[k].pool /\ ErrCount(call[k].err, n) = 0
                       \/ n \notin DOMAIN call[k].pool /\ ErrCount(call[k].err, n) = 1

\* A GetServerClient that returned with clusters in the pool and clusters in
\* the combined error.
C2_Witness ==
    \E k \in Slots :
        /\ FanOutReturned(k)
        /\ call[k].op = "GetServerClient"
        /\ Len(call[k].targets) = 3
        /\ DOMAIN call[k].pool /= {}
        /\ call[k].err /= <<>>

\* A GetImpersonatedClientForCluster call with a user for a name that the
\* registry did not hold.
ForUnknownCluster(k) ==
    /\ call[k].op = "GetImpersonatedClientForCluster"
    /\ call[k].user /= NoUser
    /\ call[k].targets = <<>>

\* C3: GetImpersonatedClientForCluster(user, name) with a non-nil user and a
\* name that is not in the registry returns a "cluster not found" error
\* value and does not crash.
C3_ClusterNotFoundIsReturned ==
    \A k \in Slots :
        ForUnknownCluster(k) =>
            /\ call[k].pc = "returned"
            /\ call[k].client = "nil"
            /\ call[k].err = <<"cluster not found">>

---------------------------------------------------------------------------
(* Properties of the namespace refresh and the caches *)

\* An UpdateNamespaces whose syncCaches found the hash changed and has
\* emptied both caches, and that has not yet listed.
Invalidated(k) ==
    /\ call[k].op = "UpdateNamespaces"
    /\ call[k].changed
    /\ call[k].pc = "list"

\* C4: after the hash of the Cluster Registry changed, reads of the Namespace
\* Cache (GetClustersNamespaces) and of the User Namespace Cache
\* (GetUserNamespaces) return empty until the entries are repopulated, and no
\* read returns an entry computed before the change. It is stated for the
\* latest moment the claim can mean: from the end of the syncCaches that
\* found the change until that refresh lists, when the Namespace Cache is
\* empty and every entry the User Namespace Cache may gain is filtered from it.
C4_NoStaleReadAfterHashChange ==
    \A k \in Slots :
        Invalidated(k) =>
            /\ DOMAIN GetClustersNamespaces = {}
            /\ \A n \in DOMAIN GetUserNamespaces("u1") :
                   GetUserNamespaces("u1")[n] = {}

\* The step in which syncCaches of call k compares the hashes.
SyncStep(k) == call[k].pc = "sync" /\ call'[k].pc /= "sync"
\* The step in which syncCaches of call k clears the User Namespace Cache.
ClearStep(k) == call[k].pc = "clear" /\ call'[k].pc /= "clear"

\* C5: whenever the membership of the registry changed at least once since
\* the previous syncCaches, whatever the changes were, the next
\* UpdateNamespaces clears the Namespace Cache and the User Namespace Cache
\* before it lists.
C5_AnyChangeSinceLastCycleClears ==
    [][\A k \in Slots :
          (SyncStep(k) /\ hist.dirty) =>
              /\ call'[k].pc = "clear"
              /\ clustersNamespaces' = EmptyNamespaces]_vars

\* C5, amended: UpdateNamespaces clears the two caches, before it lists,
\* exactly when the hash its syncCaches reads differs from the hash stored
\* by the last clear (cf.clustersHash): it then empties the Namespace Cache,
\* then the User Namespace Cache, and stores the hash it read; when the two
\* hashes are equal, whatever changes happened in between, it clears nothing.
C5_ClearsExactlyOnHashMismatch ==
    [][\A k \in Slots :
          /\ SyncStep(k) =>
                IF RegistryHash(clusters) /= clustersHash
                THEN /\ call'[k].pc = "clear"
                     /\ clustersNamespaces' = EmptyNamespaces
                ELSE /\ call'[k].pc = "list"
                     /\ clustersNamespaces' = clustersNamespaces
                     /\ usersNamespaces' = usersNamespaces
                     /\ clustersHash' = clustersHash
          /\ ClearStep(k) =>
                /\ call'[k].pc = "list"
                /\ usersNamespaces' = EmptyUsersNamespaces
                /\ clustersNamespaces' = clustersNamespaces
                /\ clustersHash' = call[k].arg]_vars

\* syncCaches has found the hash changed and emptied a Namespace Cache that
\* was filled, and is about to empty a User Namespace Cache that is filled.
C5_Witness ==
    \E k \in Slots :
        /\ call[k].op = "UpdateNamespaces"
        /\ call[k].pc = "clear"
        /\ clustersHash /= ""
        /\ RegistryHash(clusters) /= clustersHash
        /\ usersNamespaces /= EmptyUsersNamespaces

\* A step of the cluster refresh or of the namespace refresh.
RefreshStep == upd' /= upd \/ clusters' /= clusters \/ call'["ns"] /= call["ns"]

\* C6: no step of UpdateClusters or of UpdateNamespaces (syncCaches
\* included) removes an entry of the User Client Cache or touches an entry of
\* a user: the only entries such a step writes are the server-identity
\* clients the refresh's own getOrCreateClient builds; and an entry leaves
\* the cache only in a step of TTL expiry, which is no step of any call.
C6_RefreshKeepsUserClientCache ==
    [][\A key \in ClientKeys :
          usersClients'[key] /= usersClients[key] =>
              IF RefreshStep
              THEN /\ key[1] = ServerId
                   /\ usersClients'[key].kind = "server"
                   /\ usersClients'[key].by = "ns"
                   /\ usersClients'[key].cluster.name = key[2]
              ELSE \/ usersClients'[key] /= NoClient
                   \/ call' = call]_vars

\* syncCaches has found the hash changed and emptied the two namespace
\* caches while the User Client Cache held a client of a user and a client
\* of the server, and both are still there.
C6_Witness ==
    /\ Invalidated("ns")
    /\ clustersHash /= RegistryHash(<<Cl("a", 1)>>)
    /\ usersClients[<<"u1", "a">>] /= NoClient
    /\ usersClients[<<ServerId, "a">>] /= NoClient

---------------------------------------------------------------------------
(* Properties of the watcher hub *)

\* The watcher a refresh is sending to, or is about to send to.
NotifyTarget(r) == upd[r].snap[upd[r].idx]

\* C7: in every interleaving of UpdateClusters' notifying loop with
\* Unsubscribe, no update is sent on a closed watcher channel and no channel
\* is closed while a send to it is pending.
C7_NoSendOnClosedChannel ==
    \A r \in Refreshers :
        /\ upd[r].pc /= "panicked"
        /\ upd[r].pc = "notify" => ~chans[NotifyTarget(r)].closed

\* C8: under concurrent Subscribe, RemoveWatcher / Unsubscribe and
\* UpdateClusters, cf.watchers holds exactly the watchers whose Subscribe has
\* returned and whose removal has not: none is lost, none reappears.
C8_WatchersAreTheSubscribed ==
    \A s \in Subs :
        /\ sub[s].pc = "active" => s \in Range(watchers)
        /\ sub[s].pc \in {"closing", "removed", "closed"} => s \notin Range(watchers)

\* The updates of a sequence of recorded changes of the cluster set.
UpdatesOf(changes) ==
    [i \in DOMAIN changes |->
        [Added |-> SetAdded(changes[i].before, changes[i].after),
         Removed |-> SetRemoved(changes[i].before, changes[i].after)]]

\* The scenario has run to its end: the refreshes have returned, the
\* watcher has received one update per change, in the order of the changes
\* and with each change's added and removed clusters, it is off the list and
\* its channel is closed and empty.
ScenarioDone ==
    /\ \A r \in Refreshers : upd[r].pc = "idle"
    /\ Len(hist.changes) = MaxChanges
    /\ sub[ScenarioWatcher].pc = "closed"
    /\ sub[ScenarioWatcher].recv = UpdatesOf(hist.changes)
    /\ chans[ScenarioWatcher].closed
    /\ chans[ScenarioWatcher].buf = <<>>
    /\ ScenarioWatcher \notin Range(watchers)

\* C9: a watcher subscribes, then refreshes change the cluster set
\* (MaxChanges of them, two in the claim), then the watcher unsubscribes:
\* every refresh returns, the watcher receives exactly one update per change,
\* in order and with that change's added and removed clusters, and the
\* channel ends closed, so that a further receive returns.
C9_ScenarioCompletes == <>[]ScenarioDone

\* The end of the scenario, with two different updates received.
C9_Witness ==
    /\ ScenarioDone
    /\ Len(sub[ScenarioWatcher].recv) >= 2
    /\ sub[ScenarioWatcher].recv[1] /= sub[ScenarioWatcher].recv[2]

\* C10: once a watcher has been deregistered, by RemoveWatcher(w) or by
\* w.Unsubscribe(), it is off the list and its channel is closed, and every
\* other watcher that is subscribed is on the list with its channel open.
C10_DeregisteredIsAbsentAndClosed ==
    \A s \in Subs :
        sub[s].pc \in {"removed", "closed"} =>
            /\ s \notin Range(watchers)
            /\ chans[s].closed
            /\ \A o \in Subs \ {s} :
                   sub[o].pc = "active" => o \in Range(watchers) /\ ~chans[o].closed

---------------------------------------------------------------------------
(* Properties of Start and of the cluster refresh loop *)

\* C11: after Start the namespace refresh loop performs no UpdateNamespaces
\* before the first UpdateClusters call of watchClusters has returned (with
\* success or with an error) and the signal was passed, and
\* cf.initialClustersLoad is sent on exactly once.
C11_NamespacesWaitForFirstLoad ==
    /\ [][call'["ns"] /= call["ns"] =>
             /\ loop.clusters = "poll"
             /\ loop.sent = 1]_vars
    /\ [](/\ loop.sent <= 1
          /\ loop.clusters \in {"off", "first", "signal"} => loop.sent = 0
          /\ loop.clusters = "poll" => loop.sent = 1
          /\ loop.clusters = "signal" => \A r \in Refreshers : upd[r].pc = "idle")

\* The namespace loop is refreshing after a first UpdateClusters that failed.
C11_Witness ==
    /\ loop.sent = 1
    /\ call["ns"].op = "UpdateNamespaces"
    /\ call["ns"].pc = "sync"
    /\ clusters = <<>>
    /\ upd["loop"].err /= ""

---------------------------------------------------------------------------
(* Properties of the Cluster Registry *)

\* A step in which UpdateClusters of r did cf.clusters.Set.
SetStep(r) ==
    /\ upd[r].pc = "idle"
    /\ upd'[r].err = ""
    /\ clusters' /= clusters \/ upd'[r] /= upd[r]

\* C12: Set(B) on a registry holding A makes the registry B and returns as
\* added exactly the clusters of B whose names are not in A and as removed
\* exactly the clusters of A whose names are not in B, whatever the order of
\* the lists and also when A or B is empty.
C12_SetReplacesAndDiffsByName ==
    [][\A r \in Refreshers :
          SetStep(r) =>
              LET A == clusters
                  B == clusters'
                  added == upd'[r].added
                  removed == upd'[r].removed
              IN  /\ Range(added) = {c \in Range(B) : c.name \notin NamesOf(A)}
                  /\ Range(removed) = {c \in Range(A) : c.name \notin NamesOf(B)}
                  /\ Len(added) = Cardinality(NamesOf(B) \ NamesOf(A))
                  /\ Len(removed) = Cardinality(NamesOf(A) \ NamesOf(B))
                  /\ Len(hist'.changes) > Len(hist.changes) =>
                        /\ hist'.changes[Len(hist'.changes)].before = A
                        /\ hist'.changes[Len(hist'.changes)].after = B]_vars

\* A Set that added a cluster, removed another and kept a third under other
\* connection parameters.
C12_Witness ==
    \E r \in Refreshers :
        /\ upd[r].pc = "range"
        /\ Len(upd[r].added) = 1
        /\ Len(upd[r].removed) = 1
        /\ Len(clusters) = 2
        /\ Len(hist.changes) > 0
        /\ LET A == hist.changes[Len(hist.changes)].before
           IN  /\ NamesOf(A) \cap NamesOf(clusters) /= {}
               /\ Range(A) \cap Range(clusters) = {}

\* The registries a run has seen: the current one and those of its changes.
SeenRegistries ==
    {clusters} \cup {hist.changes[i].before : i \in DOMAIN hist.changes}
               \cup {hist.changes[i].after : i \in DOMAIN hist.changes}

\* C13: Hash(A) differs from Hash(B) whenever the name sets of A and B
\* differ, also when a name is a prefix or the concatenation of other names.
C13_HashSeparatesNameSets ==
    \A A \in SeenRegistries, B \in SeenRegistries :
        NamesOf(A) /= NamesOf(B) => RegistryHash(A) /= RegistryHash(B)

\* The registry went from the clusters a and b to the cluster ab.
C13_Witness ==
    \E i \in DOMAIN hist.changes :
        /\ NamesOf(hist.changes[i].before) = {"a", "b"}
        /\ NamesOf(hist.changes[i].after) = {"ab"}

\* C14: Hash(A) equals Hash(A') whenever A and A' hold the same cluster
\* names, in whatever order they were supplied to Set: an UpdateNamespaces
\* before which the names of the registry did not change since the last
\* syncCaches, whatever happened to the order of its clusters, clears nothing.
C14_ReorderingClearsNothing ==
    [][\A k \in Slots :
          (SyncStep(k) /\ ~hist.dirty) =>
              /\ RegistryHash(clusters) = clustersHash
              /\ call'[k].pc = "list"
              /\ clustersNamespaces' = clustersNamespaces
              /\ usersNamespaces' = usersNamespaces]_vars

\* syncCaches has left a filled Namespace Cache alone although the registry
\* now lists its clusters in the other order than when the refresh began.
C14_Witness ==
    /\ call["ns"].op = "UpdateNamespaces"
    /\ call["ns"].pc = "list"
    /\ ~call["ns"].changed
    /\ call["ns"].targets = <<Cl("a", 1), Cl("b", 1)>>
    /\ clusters = <<Cl("b", 1), Cl("a", 1)>>
    /\ DOMAIN GetClustersNamespaces = {"a", "b"}

\* A step in which the Fetch of UpdateClusters of r failed.
FetchFailedStep(r) ==
    /\ upd[r].pc = "idle"
    /\ upd[r].err = ""
    /\ upd'[r].err /= ""

\* C15: when Fetch fails, UpdateClusters returns an error, the registry keeps
\* the clusters it had, no watcher is notified, and watchClusters goes on:
\* after its first call to the signal, in its poll to the next tick, where
\* it calls UpdateClusters (and so Fetch) again.
C15_FetchFailureKeepsRegistry ==
    /\ [][\A r \in Refreshers :
             FetchFailedStep(r) =>
                 /\ upd'[r] = [IdleUpd EXCEPT !.err = "failed to fetch clusters"]
                 /\ clusters' = clusters
                 /\ chans' = chans
                 /\ watchers' = watchers
                 /\ hist' = hist
                 /\ loop'.clusters \in {"signal", "poll"}]_vars
    /\ [](\A r \in Refreshers :
             (upd[r].err /= "" /\ loop.clusters = "poll"
                  /\ Len(hist.changes) < MaxChanges) =>
                 ENABLED WatchClustersUpdate(r, TRUE, <<>>))

\* A Fetch of the poll has failed while the registry held a cluster and a
\* watcher was subscribed; the registry still holds the cluster.
C15_Witness ==
    /\ loop.clusters = "poll"
    /\ upd["loop"].err /= ""
    /\ clusters = <<Cl("a", 1)>>
    /\ watchers = <<"w1">>
    /\ chans["w1"].buf = <<>>

\* The three calls for a client made for a user.
ClientCalls ==
    {"GetImpersonatedClient", "GetImpersonatedClientForCluster",
     "GetImpersonatedDiscoveryClient"}

\* A call for a client that was made with a nil user.
NilUserCall(c) == c.op \in ClientCalls /\ c.user = NoUser

\* C16: GetImpersonatedClient, GetImpersonatedClientForCluster and
\* GetImpersonatedDiscoveryClient called with a nil user return the error
\* "no user supplied" before any work begins: no per-cluster task is started,
\* no client is built, and the step leaves the User Client Cache and the
\* User Namespace Cache as they were.
C16_NilUserReturnsBeforeAnyWork ==
    /\ [](\A k \in Slots :
             NilUserCall(call[k]) =>
                 /\ call[k].pc = "returned"
                 /\ call[k].err = <<"no user supplied">>
                 /\ call[k].client = "nil"
                 /\ call[k].targets = <<>> /\ call[k].task = <<>>
                 /\ call[k].nsTargets = <<>> /\ call[k].nsTask = <<>>
                 /\ call[k].pool = EmptyPool)
    /\ [][\A k \in Slots :
             (call[k].pc = "idle" /\ NilUserCall(call'[k])) =>
                 /\ usersClients' = usersClients
                 /\ usersNamespaces' = usersNamespaces]_vars

\* A nil-user call for the discovery client of a known cluster has returned
\* while both caches hold entries of earlier calls.
C16_Witness ==
    /\ NilUserCall(call["req"])
    /\ call["req"].op = "GetImpersonatedDiscoveryClient"
    /\ call["req"].arg = "a"
    /\ clusters = <<Cl("a", 1)>>
    /\ usersClients[<<"u1", "a">>] /= NoClient
    /\ usersNamespaces[<<"u1", "a">>] /= NoEntry

\* The per-user operations of the manager.
PerUserCalls == ClientCalls \cup {"UpdateUserNamespaces", "GetUserNamespaces"}

\* C17: a nil identity passed to any per-user operation of the manager is
\* rejected as an error outcome: the call is returned with an error, having
\* started no task, and it never dereferences the identity.
C17_NilIdentityIsRejected ==
    \A k \in Slots :
        (call[k].op \in PerUserCalls /\ call[k].user = NoUser) =>
            /\ call[k].pc = "returned"
            /\ call[k].err /= <<>>
            /\ call[k].nsTask = <<>>

\* C18: a caller that needs cluster X and obtains its client through
\* GetImpersonatedClient followed by Scoped(X), as GetSessionLogs does, gets
\* a usable client for X whenever X's client was built, even when other
\* clusters failed and the combined error is non-nil.
C18_SiblingFailureDoesNotFailTheRequest ==
    \A k \in Slots :
        (call[k].op = "GetSessionLogs" /\ PoolHas(call[k].pool, call[k].arg)) =>
            /\ call[k].client = "scoped"
            /\ call[k].err = <<>>

---------------------------------------------------------------------------
(* Properties of the User Client Cache *)

\* The key of the User Client Cache that task i of call c works on.
TaskKey(c, i) == <<EffectiveUser(c.user), c.targets[i].name>>

\* A step in which task i of goroutine k makes its lookup in the cache.
LookupStep(k, i) ==
    /\ call[k].pc = "wait"
    /\ i \in DOMAIN call[k].task
    /\ call[k].task[i] = "lookup"
    /\ call'[k].task[i] /= "lookup"

\* A step in which task i of goroutine k constructs a client, or fails to.
CreateStep(k, i) ==
    /\ call[k].pc = "wait"
    /\ i \in DOMAIN call[k].task
    /\ call[k].task[i] = "create"
    /\ call'[k].task[i] /= "create"

ConstructedFor(key) ==
    {NewClientFor(key[1] = ServerId, key[1], cl, k) :
        cl \in {c \in ClusterValues : c.name = key[2]}, k \in Slots}

\* The tasks of the two goroutines that hold a client they constructed
\* themselves for the key.
Constructors(key) ==
    {<<k, i>> \in Slots \X (1..Cardinality(Names)) :
        /\ call[k].pc = "wait"
        /\ i \in DOMAIN call[k].task
        /\ call[k].task[i] \in {"add", "done", "blocked"}
        /\ TaskKey(call[k], i) = key
        /\ call[k].got[i] /= NoClient
        /\ call[k].got[i].by = k}

\* C20: when N callers concurrently miss the User Client Cache on the same
\* key, each of them constructs at most once (at most N constructions),
\* each construction stores the client it built under that key and under no
\* other, so that the cache holds exactly one of the constructed clients,
\* and every later lookup before the TTL elapses returns the cached client
\* with no further construction.
C20_ConcurrentMissesConverge ==
    /\ [][\A k \in Slots : \A i \in 1..Cardinality(Names) :
             /\ CreateStep(k, i) =>
                   LET key == TaskKey(call[k], i)
                   IN  IF call'[k].task[i] = "add"
                       THEN /\ call'[k].got[i] \in ConstructedFor(key)
                            /\ call'[k].got[i].by = k
                            /\ usersClients' =
                                  [usersClients EXCEPT ![key] = call'[k].got[i]]
                       ELSE usersClients' = usersClients
             /\ (/\ call[k].pc = "wait" /\ call'[k].pc = "wait"
                 /\ i \in DOMAIN call[k].task
                 /\ call[k].task[i] \in {"add", "done", "blocked"}) =>
                   call'[k].task[i] \in {"add", "done", "blocked"}
             /\ (LookupStep(k, i) /\ usersClients[TaskKey(call[k], i)] /= NoClient) =>
                   /\ call'[k].task[i] = "add"
                   /\ call'[k].got[i] = usersClients'[TaskKey(call[k], i)]]_vars
    /\ [](\A key \in ClientKeys :
             /\ usersClients[key] /= NoClient => usersClients[key] \in ConstructedFor(key)
             /\ (Cardinality(Constructors(key)) = Cardinality(Slots)
                    /\ usersClients[key] /= NoClient) =>
                   \E t \in Constructors(key) :
                       usersClients[key] = call[t[1]].got[t[2]])

\* Both goroutines missed on (server, a) and each constructed a client; both
\* have finished, and the cache holds the one of the namespace refresh.
C20_Witness ==
    /\ Constructors(<<ServerId, "a">>) = {<<"req", 1>>, <<"ns", 1>>}
    /\ call["req"].task = <<"done">>
    /\ call["ns"].task = <<"done">>
    /\ usersClients[<<ServerId, "a">>] = call["ns"].got[1]
    /\ usersClients[<<ServerId, "a">>] /= call["req"].got[1]

---------------------------------------------------------------------------
(* Properties of the pool and of the cache reads *)

\* A step in which task i of goroutine k calls pool.Add.
AddStep(k, i) ==
    /\ call[k].pc = "wait"
    /\ i \in DOMAIN call[k].task
    /\ call[k].task[i] = "add"
    /\ call'[k].task[i] /= "add"

\* The tasks of call c for clusters named n.
TasksFor(c, n) == {i \in DOMAIN c.targets : c.targets[i].name = n}

\* C21: a pool never holds more than one client per cluster name: Add for a
\* name already present reports an error and leaves the entry and the rest
\* of the pool unchanged, Add for a new name adds exactly that entry, and in
\* the pool a GetImpersonatedClient or GetServerClient returns each name
\* stands for one of its tasks, every other task for the name being in the
\* combined error.
C21_OneClientPerClusterName ==
    /\ [][\A k \in Slots : \A i \in 1..Cardinality(Names) :
             AddStep(k, i) =>
                 LET n == call[k].targets[i].name
                 IN  IF PoolHas(call[k].pool, n)
                     THEN /\ call'[k].pool = call[k].pool
                          /\ \/ call'[k].task[i] = "blocked"
                             \/ /\ call'[k].task[i] = "done"
                                /\ call'[k].errs =
                                      Append(call[k].errs,
                                             ClientError(n, "failed adding cluster client to pool"))
                     ELSE /\ DOMAIN call'[k].pool = DOMAIN call[k].pool \cup {n}
                          /\ call'[k].pool[n] = call[k].got[i]
                          /\ \A m \in DOMAIN call[k].pool :
                                call'[k].pool[m] = call[k].pool[m]
                          /\ call'[k].errs = call[k].errs]_vars
    /\ [](\A k \in Slots :
             FanOutReturned(k) =>
                 \A n \in NamesOf(call[k].targets) :
                     Cardinality(TasksFor(call[k], n)) =
                         ErrCount(call[k].err, n)
                             + (IF PoolHas(call[k].pool, n) THEN 1 ELSE 0))

\* A call over two clusters of one name has returned: its two tasks built
\* different clients, the pool holds the one added first and the combined
\* error reports the other.
C21_Witness ==
    \E k \in Slots :
        /\ FanOutReturned(k)
        /\ Len(call[k].targets) = 2
        /\ NamesOf(call[k].targets) = {"a"}
        /\ call[k].got[1] /= call[k].got[2]
        /\ call[k].got[2] /= NoClient
        /\ call[k].pool["a"] = call[k].got[2]
        /\ call[k].err = <<ClientError("a", "failed adding cluster client to pool")>>

\* The clusters of the pool of call c on which its identity has no
\* accessible namespace.
NoAccess(c) == {n \in DOMAIN c.pool : n \notin DOMAIN c.ns \/ c.ns[n] = {}}

\* C22: ClusteredList with restrictToAccessible set yields an empty result
\* and no error for a cluster on which the pool's identity has no accessible
\* namespace, and for a cluster with accessible namespaces what its list
\* found in them; a cluster whose list failed is in the combined error and
\* the results of the other clusters are there alongside it.
C22_EmptyAccessIsNotAnError ==
    \A k \in Slots :
        (call[k].op = "ClusteredList" /\ call[k].arg = "restricted") =>
            \A n \in DOMAIN call[k].pool :
                IF n \in NoAccess(call[k])
                THEN /\ n \in DOMAIN call[k].lists
                     /\ call[k].lists[n] = {}
                     /\ ErrCount(call[k].err, n) = 0
                ELSE IF call[k].asked[n] = ListFailed
                THEN /\ n \notin DOMAIN call[k].lists
                     /\ ErrCount(call[k].err, n) = 1
                ELSE /\ n \in DOMAIN call[k].lists
                     /\ call[k].lists[n] = call[k].asked[n] \cap call[k].ns[n]
                     /\ ErrCount(call[k].err, n) = 0

\* The user has no accessible namespace on a, where objects exist in n2,
\* and has n1 on b: the restricted list is empty for a, holds b's objects,
\* and has no error.
C22_Witness ==
    /\ call["req"].op = "ClusteredList"
    /\ call["req"].arg = "restricted"
    /\ DOMAIN call["req"].pool = {"a", "b"}
    /\ NoAccess(call["req"]) = {"a"}
    /\ call["req"].asked["a"] = {"n2"}
    /\ call["req"].lists = [n \in {"a", "b"} |-> IF n = "a" THEN {} ELSE {"n1"}]
    /\ call["req"].err = <<>>

\* The calls that ask for the server's clients: GetServerClient, and
\* UpdateNamespaces, which begins with it.
ServerCalls == {"GetServerClient", "UpdateNamespaces"}

\* C23: GetServerClient builds every per-cluster client with the server
\* identity and stores it under the server sentinel, never with a user's
\* credentials; the clients of its pool are such clients, and the namespace
\* map attached to the client it returns is the Namespace Cache itself, not
\* an access-filtered copy.
C23_ServerClientUsesServerIdentity ==
    /\ [][\A k \in Slots : \A i \in 1..Cardinality(Names) :
             (CreateStep(k, i) /\ call[k].op \in ServerCalls
                  /\ call'[k].task[i] = "add") =>
                 /\ call'[k].got[i].kind = "server"
                 /\ call'[k].got[i].user = ServerId
                 /\ call'[k].got[i].cluster = call[k].targets[i]
                 /\ usersClients' =
                       [usersClients EXCEPT
                          ![<<ServerId, call[k].targets[i].name>>] = call'[k].got[i]]]_vars
    /\ [](\A k \in Slots :
             call[k].op \in ServerCalls =>
                 /\ \A n \in DOMAIN call[k].pool :
                        /\ call[k].pool[n].kind = "server"
                        /\ call[k].pool[n].user = ServerId
                 /\ (call[k].op = "GetServerClient" /\ call[k].pc = "returned") =>
                        /\ call[k].client = "client"
                        /\ call[k].nsLive
                        /\ call[k].ns = EmptyPool)

\* GetServerClient has returned a client for cluster a while the Namespace
\* Cache holds n1 and n2 for a and the User Namespace Cache only u1's n1.
C23_Witness ==
    /\ call["req"].op = "GetServerClient"
    /\ call["req"].pc = "returned"
    /\ DOMAIN call["req"].pool = {"a"}
    /\ call["req"].pool["a"].by = "req"
    /\ DOMAIN GetClustersNamespaces = {"a"}
    /\ GetClustersNamespaces["a"] = {"n1", "n2"}
    /\ usersNamespaces[<<"u1", "a">>] = {"n1"}

\* The steps of task i of UpdateUserNamespaces of goroutine k: its read of
\* the Namespace Cache, and the rest of it.
UserNsReadStep(k, i) ==
    /\ call[k].pc = "nswait"
    /\ i \in DOMAIN call[k].nsTask
    /\ call[k].nsTask[i] = "read"
    /\ call'[k].nsTask[i] /= "read"

UserNsFilterStep(k, i) ==
    /\ call[k].pc = "nswait"
    /\ i \in DOMAIN call[k].nsTask
    /\ call[k].nsTask[i] = "filter"
    /\ call'[k].nsTask[i] /= "filter"

\* C24: for a known cluster whose clientset and access check succeed,
\* UpdateUserNamespaces(user) stores under (user, cluster) what the access
\* checker returns of the list it read in the Namespace Cache, and touches
\* no other entry; for a cluster where a step fails it writes nothing; in
\* both cases the task ends, the tasks of the other clusters are left as
\* they are and can go on.
C24_UserNamespacesPerCluster ==
    /\ [][\A k \in Slots : \A i \in 1..Cardinality(Names) :
             /\ UserNsReadStep(k, i) =>
                   /\ call'[k].nsSeen[i] =
                         ClustersNamespacesGet(clustersNamespaces,
                                               call[k].nsTargets[i].name)
                   /\ usersNamespaces' = usersNamespaces
             /\ UserNsFilterStep(k, i) =>
                   /\ call'[k].nsTask =
                         [call[k].nsTask EXCEPT ![i] = "done"]
                   /\ \/ usersNamespaces' = usersNamespaces
                      \/ usersNamespaces' =
                            [usersNamespaces EXCEPT
                               ![<<call[k].user, call[k].nsTargets[i].name>>] =
                                  FilterAccessibleNamespaces(call[k].user,
                                                             call[k].nsSeen[i])]]_vars
    /\ [](\A k \in Slots : \A i \in 1..Cardinality(Names) :
             (/\ call[k].pc = "nswait"
              /\ i \in DOMAIN call[k].nsTask
              /\ call[k].nsTask[i] = "filter") =>
                 ENABLED UserNsTaskFilter(k, i, TRUE))

\* UpdateUserNamespaces of u1 over a and b, both with n1 in the Namespace
\* Cache: the task of a failed and left no entry, the task of b stored n1.
C24_Witness ==
    /\ call["req"].pc = "nswait"
    /\ call["req"].user = "u1"
    /\ NamesOf(call["req"].nsTargets) = {"a", "b"}
    /\ call["req"].nsTask = <<"done", "done">>
    /\ call["req"].nsSeen = <<{"n1"}, {"n1"}>>
    /\ usersNamespaces[<<"u1", "a">>] = NoEntry
    /\ usersNamespaces[<<"u1", "b">>] = {"n1"}

---------------------------------------------------------------------------
(* Properties of the entries of the Namespace Cache *)

\* A step in which UpdateNamespaces of goroutine k stores a list.
WriteStep(k) ==
    /\ call[k].pc = "write"
    /\ call'[k].pc = "write"
    /\ call'[k].lists /= call[k].lists

\* The entry of cluster n is replaced by the list of n that the refresh of
\* some goroutine has just made with success.
FreshlyWritten(n) ==
    \E k \in Slots :
        /\ WriteStep(k)
        /\ n \in DOMAIN call[k].lists
        /\ call[k].asked[n] /= ListFailed
        /\ clustersNamespaces'[n] = call[k].asked[n]

C26_ReaderHoldsASnapshot ==
    \A k \in Slots :
        (call[k].op = "GetClustersNamespaces" /\ call[k].pc = "returned") =>
            Held(call[k]) = call[k].ns

\* The calls that only read a cache.
CacheReads == {"GetUserNamespaces", "GetClustersNamespaces"}

\* C27: GetUserNamespaces and GetClustersNamespaces never trigger
\* computation: the call returns in one step in which no task is started, no
\* cache and no registry changes, and GetUserNamespaces returns the entries
\* the User Namespace Cache holds for the user, for clusters of the registry
\* only.
C27_ReadsNeverCompute ==
    /\ [][\A k \in Slots :
             (call[k].pc = "idle" /\ call'[k].op \in CacheReads) =>
                 /\ call'[k].pc = "returned"
                 /\ call'[k].task = <<>> /\ call'[k].nsTask = <<>>
                 /\ usersNamespaces' = usersNamespaces
                 /\ clustersNamespaces' = clustersNamespaces
                 /\ usersClients' = usersClients
                 /\ clusters' = clusters /\ upd' = upd
                 /\ call'[k].op = "GetUserNamespaces" =>
                        /\ DOMAIN call'[k].ns \subseteq NamesOf(clusters)
                        /\ \A n \in DOMAIN call'[k].ns :
                               call'[k].ns[n] = usersNamespaces[<<call'[k].user, n>>]
                        /\ \A n \in NamesOf(clusters) \ DOMAIN call'[k].ns :
                               usersNamespaces[<<call'[k].user, n>>] = NoEntry]_vars
    /\ [](\A k \in Slots :
             call[k].op \in CacheReads =>
                 /\ call[k].pc = "returned"
                 /\ call[k].task = <<>> /\ call[k].nsTask = <<>>)

\* GetUserNamespaces of u1 has returned nothing: the User Namespace Cache
\* holds u1's entry for a, but a is no longer in the registry.
C27_Witness ==
    /\ call["req"].op = "GetUserNamespaces"
    /\ call["req"].user = "u1"
    /\ call["req"].ns = EmptyPool
    /\ usersNamespaces[<<"u1", "a">>] = {"n1"}
    /\ clusters = <<>>
    /\ clustersNamespaces["a"] /= NoEntry

---------------------------------------------------------------------------
(* Properties of the notification of the watchers *)

\* A step in which UpdateClusters of r has fetched and called Set.
FetchedStep(r) ==
    /\ upd[r].pc = "idle"
    /\ upd' /= upd \/ clusters' /= clusters
    /\ upd'[r].err = ""

\* A step of w.Notify in the loop of UpdateClusters of r.
NotifyStep(r) == upd[r].pc = "notify" /\ upd'[r] /= upd[r]

\* C28: UpdateClusters notifies watchers if and only if the diff returned by
\* Set is non-empty: a refresh with unchanged membership sends nothing and
\* returns, and a refresh with changed membership goes through the watchers
\* registered at that time and sends each of them exactly one update that
\* carries the refresh's added and removed lists.
C28_NotifiesIffDiffNonEmpty ==
    [][\A r \in Refreshers :
          /\ FetchedStep(r) =>
                /\ chans' = chans
                /\ IF SetAdded(clusters, clusters') = <<>>
                      /\ SetRemoved(clusters, clusters') = <<>>
                   THEN upd'[r] = IdleUpd
                   ELSE /\ upd'[r].pc = "range"
                        /\ upd'[r].added = SetAdded(clusters, clusters')
                        /\ upd'[r].removed = SetRemoved(clusters, clusters')
          /\ (upd[r].pc = "range" /\ upd'[r] /= upd[r]) =>
                /\ chans' = chans
                /\ IF watchers = <<>> THEN upd'[r] = IdleUpd
                   ELSE upd'[r].pc = "notify" /\ upd'[r].snap = watchers
                        /\ upd'[r].idx = 1
          /\ NotifyStep(r) =>
                LET w == NotifyTarget(r)
                IN  /\ chans' = [chans EXCEPT ![w].buf =
                                   Append(@, ClusterListUpdate(upd[r].added,
                                                               upd[r].removed))]
                    /\ IF upd[r].idx = Len(upd[r].snap)
                       THEN upd'[r] = IdleUpd
                       ELSE upd'[r] = [upd[r] EXCEPT !.idx = @ + 1]]_vars

---------------------------------------------------------------------------
(* Properties of getOrCreateClient and of the refresh of the namespaces *)

\* C29: getOrCreateClient on a hit returns the cached client and constructs
\* nothing; on a miss it constructs with the server identity when that was
\* requested (a nil user) and with the user's credentials otherwise, stores
\* the client under (identity, cluster) and returns it; when the
\* construction fails it reports an error and stores nothing, so that the
\* cache still has no entry for the key.
C29_GetOrCreateClient ==
    [][\A k \in Slots : \A i \in 1..Cardinality(Names) :
          LET key == TaskKey(call[k], i)
          IN  /\ LookupStep(k, i) =>
                    /\ usersClients' = usersClients
                    /\ IF usersClients[key] /= NoClient
                       THEN /\ call'[k].got[i] = usersClients[key]
                            /\ call'[k].task[i] = "add"
                            /\ call'[k].failed = call[k].failed
                       ELSE /\ call'[k].task[i] = "create"
                            /\ call'[k].got[i] = NoClient
              /\ CreateStep(k, i) =>
                    IF call'[k].task[i] = "add"
                    THEN /\ call'[k].got[i].kind =
                               (IF call[k].user = NoUser THEN "server" ELSE "user")
                         /\ call'[k].got[i].user = key[1]
                         /\ call'[k].got[i].cluster = call[k].targets[i]
                         /\ usersClients' =
                               [usersClients EXCEPT ![key] = call'[k].got[i]]
                         /\ call'[k].errs = call[k].errs
                    ELSE /\ usersClients' = usersClients
                         /\ call'[k].got[i] = NoClient
                         /\ call'[k].failed = call[k].failed \cup {key[2]}
                         /\ \/ call'[k].task[i] = "blocked"
                            \/ /\ call'[k].task[i] = "done"
                               /\ call'[k].errs =
                                     Append(call[k].errs,
                                            ClientError(key[2], CreateErrText(call[k])))]_vars

\* In a call of u1 over two clusters named a, the construction for the
\* first failed and stored nothing; the getOrCreateClient for the second
\* found no entry under (u1, a) and is about to construct.
C29_Witness ==
    /\ call["req"].op = "GetImpersonatedClient"
    /\ call["req"].pc = "wait"
    /\ call["req"].task = <<"done", "create">>
    /\ call["req"].failed = {"a"}
    /\ call["req"].got[1] = NoClient
    /\ usersClients[<<"u1", "a">>] = NoClient
    /\ usersClients[<<ServerId, "a">>] /= NoClient

\* What a finished UpdateNamespaces leaves: every cluster whose client was
\* in the pool and whose list succeeded has the fresh list as its entry of
\* the Namespace Cache, and the error returned is non-nil exactly when the
\* construction of a client or a list failed.
RefreshOutcome ==
    \A k \in Slots :
       (call[k].op = "UpdateNamespaces" /\ call[k].pc = "returned") =>
          /\ \A n \in DOMAIN call[k].asked :
                call[k].asked[n] /= ListFailed =>
                   clustersNamespaces[n] = call[k].asked[n]
          /\ (call[k].err /= <<>>) <=>
                \/ call[k].failed /= {}
                \/ \E n \in DOMAIN call[k].asked : call[k].asked[n] = ListFailed

\* The construction tasks of an UpdateNamespaces have all come to their end
\* or to a send on errChan that cannot complete.
RefreshStopped(k) ==
    /\ call[k].op = "UpdateNamespaces"
    /\ call[k].pc = "wait"
    /\ \A i \in DOMAIN call[k].task : call[k].task[i] \in {"done", "blocked"}
    /\ \E i \in DOMAIN call[k].task : call[k].task[i] = "blocked"

\* C30: in UpdateNamespaces a failure on one cluster, in building its
\* server client or in listing its namespaces, does not stop the others:
\* the refresh is never left waiting with the client of another cluster in
\* its pool, every cluster whose client and list both succeed has its entry
\* of the Namespace Cache replaced by the fresh list, and the error returned
\* is non-nil exactly when at least one cluster failed.
C30_FailuresDoNotStopTheOthers ==
    /\ \A k \in Slots : ~(RefreshStopped(k) /\ DOMAIN call[k].pool /= {})
    /\ RefreshOutcome

---------------------------------------------------------------------------
(* Properties of the notifications *)

\* The refresh of goroutine r is at w.Notify for the watcher w.
NotifyingTo(r, w) ==
    /\ upd[r].pc = "notify"
    /\ upd[r].snap[upd[r].idx] = w

\* C31: a watcher's channel holds at most one unread update; a Notify to a
\* watcher whose slot is empty completes, leaving the update in the slot and
\* the loop at the next watcher or back from the refresh; while the slot of
\* the watcher being notified is full the refresh stays where it is, until
\* that subscriber receives: no later watcher gets an update and the
\* registry is not refreshed.
C31_OneSlotHeadOfLineBlocking ==
    [][\A r \in Refreshers : \A w \in Subs :
          /\ Len(chans[w].buf) <= 1
          /\ (NotifyingTo(r, w) /\ chans[w].buf = <<>> /\ upd'[r] /= upd[r]) =>
                /\ chans'[w].buf =
                      <<ClusterListUpdate(upd[r].added, upd[r].removed)>>
                /\ upd'[r].pc \in {"idle", "notify"}
                /\ upd'[r].pc = "notify" => upd'[r].idx = upd[r].idx + 1
          /\ (NotifyingTo(r, w) /\ chans[w].buf /= <<>>) =>
                /\ upd'[r] = upd[r]
                /\ clusters' = clusters
                /\ \A v \in Subs \ {w} : Len(chans'[v].buf) <= Len(chans[v].buf)
                /\ chans'[w].buf /= chans[w].buf => sub'[w].recv /= sub[w].recv]_vars

---------------------------------------------------------------------------
(* Properties of the return of the calls *)

\* C32: every call of GetImpersonatedClient or GetServerClient returns in
\* the end, whichever constructions fail and however the cluster set grows
\* or shrinks while the call runs: no task stays blocked on the report of
\* its error.
C32_CallsReturn ==
    \A k \in {"req"} :
       (call[k].op \in {"GetImpersonatedClient", "GetServerClient"}
          /\ call[k].pc /= "idle") ~> (call[k].pc = "returned")

---------------------------------------------------------------------------
(* Properties of the identities of the clients *)

\* C33: every client in the pool of a GetImpersonatedClient or a
\* GetImpersonatedClientForCluster of a user was constructed with that
\* user's impersonation credentials, whatever the user's id, the id of the
\* server's sentinel included: never with the server's identity and never
\* for another user.
C33_UserPoolHoldsUserClients ==
    \A k \in Slots :
       call[k].op \in {"GetImpersonatedClient", "GetImpersonatedClientForCluster"} =>
          \A n \in DOMAIN call[k].pool :
             /\ call[k].pool[n].kind = "user"
             /\ call[k].pool[n].user = call[k].user

\* C34: a client returned for the cluster name n was constructed from the
\* Cluster value registered under n: each client in the pool a
\* GetImpersonatedClient or a GetServerClient returns was built from the
\* Cluster value the call read from the registry under that name, never
\* from a value an earlier discovery cycle had registered.
C34_ClientOfTheRegisteredCluster ==
    \A k \in Slots :
       (call[k].op \in {"GetImpersonatedClient", "GetServerClient"}
          /\ call[k].pc = "returned") =>
          \A n \in DOMAIN call[k].pool :
             \E i \in DOMAIN call[k].targets :
                /\ call[k].targets[i].name = n
                /\ call[k].pool[n].cluster = call[k].targets[i]

---------------------------------------------------------------------------
(* Properties of the namespace caches against the registry *)

\* C35: once an UpdateNamespaces that started after the latest change of
\* the cluster set has completed, every cluster name with an entry in the
\* Namespace Cache is a member of the Cluster Registry, however the earlier
\* runs were interleaved with UpdateClusters.
C35_CachedClustersAreRegistered ==
    (call["req"].op = "UpdateNamespaces" /\ call["req"].pc = "returned") =>
       \A n \in Names :
          clustersNamespaces[n] /= NoEntry => n \in NamesOf(clusters)

\* userNsList of the GetImpersonatedClient of goroutine k reads the User
\* Namespace Cache after the join of the tasks.
UserNsListStep(k) ==
    /\ call[k].op = "GetImpersonatedClient"
    /\ call[k].pc = "wait"
    /\ call'[k].pc \in {"returned", "nsspawn"}

\* C36: the namespace map of the client GetImpersonatedClient returns has
\* an entry for every known cluster: when the User Namespace Cache holds
\* the user's entry for some clusters of the registry and not for others,
\* the call computes the user's namespaces before it returns, and when it
\* returns the cached map as it is no known cluster lacks its entry.
C36_MissingEntriesAreComputed ==
    [][\A k \in Slots :
          UserNsListStep(k) =>
             /\ (\E n \in NamesOf(clusters) :
                    usersNamespaces[<<call[k].user, n>>] = NoEntry) =>
                   call'[k].pc = "nsspawn"
             /\ call'[k].pc = "returned" =>
                   DOMAIN call'[k].ns = NamesOf(clusters)]_vars

\* The entries of the User Namespace Cache are subsets of the entries the
\* Namespace Cache holds for their clusters.
UserEntriesWithinClusterEntries ==
    \A key \in ClientKeys :
       usersNamespaces[key] /= NoEntry =>
          usersNamespaces[key] \subseteq
             ClustersNamespacesGet(clustersNamespaces, key[2])

\* No entry of the User Namespace Cache is an empty one left from a
\* Namespace Cache that has since been filled with namespaces the user may
\* read.
NoEmptyEntryFromAnEmptyCache ==
    \A key \in ClientKeys :
       usersNamespaces[key] = {} =>
          FilterAccessibleNamespaces(key[1],
             ClustersNamespacesGet(clustersNamespaces, key[2])) = {}

\* C37: whenever the User Namespace Cache holds an entry for a user and a
\* cluster, the entry is a subset of the entry the Namespace Cache holds
\* for that cluster now; and an entry computed while the Namespace Cache
\* had nothing for the cluster is not there any more once the Namespace
\* Cache has been filled again.
C37_UserEntriesFollowTheNamespaceCache ==
    UserEntriesWithinClusterEntries /\ NoEmptyEntryFromAnEmptyCache

---------------------------------------------------------------------------
(* Properties of the order of the registry and the updates *)

\* The registry holds every cluster of the list added and none of the list
\* removed.
RegistryReflects(u) ==
    /\ \A i \in DOMAIN u.Added : u.Added[i].name \in NamesOf(clusters)
    /\ \A i \in DOMAIN u.Removed : u.Removed[i].name \notin NamesOf(clusters)

\* The subscriber s receives an update in this step.
ReceiveStep(s) == sub'[s].recv /= sub[s].recv

\* An update is sent to the watcher w in this step.
SendStep(w) == Len(chans'[w].buf) > Len(chans[w].buf)

RECURSIVE ApplyUpdates(_, _)
ApplyUpdates(S, us) ==
    IF us = <<>> THEN S
    ELSE ApplyUpdates((S \cup NamesOf(Head(us).Added)) \ NamesOf(Head(us).Removed),
                      Tail(us))

\* No refresh is in progress and the subscriber s, whose Subscribe has
\* returned and who has read the registry, has drained its channel.
Settled(s) ==
    /\ \A r \in Callers : upd[r].pc = "idle"
    /\ sub[s].pc = "active"
    /\ sub[s].seen /= Unread
    /\ chans[s].buf = <<>>

\* C39: for a watcher that drains its channel, the updates it has received,
\* applied in the order of receipt to the cluster names GetClusters
\* returned when it subscribed, give the membership of the Cluster Registry
\* once no refresh is in progress, also when UpdateClusters is called by
\* several callers at once or together with Subscribe.
C39_UpdatesReplayToTheRegistry ==
    \A s \in Subs :
       Settled(s) => ApplyUpdates(sub[s].seen, sub[s].recv) = NamesOf(clusters)

====
